---- MODULE Spec2Model ----
(***************************************************************************)
(* A state-machine model of the pose estimation core of                    *)
(* tu-darmstadt-ros-pkg: the GPS and Height measurements with the global   *)
(* reference they anchor, the status flags of the estimator, and the       *)
(* predict / correct cycle that drives them.                               *)
(*                                                                         *)
(* Numbers.  The program computes in doubles; the model computes in        *)
(* integers and keeps one value apart, NaN, which every arithmetic         *)
(* operator propagates.  Latitude and longitude are counted in the arc     *)
(* that one local length unit spans, so the radii of the tangent plane     *)
(* conversion are 1.                                                       *)
(***************************************************************************)
EXTENDS Integers, Sequences, FiniteSets, TLC

(***************************************************************************)
(* Bounds of the model.                                                    *)
(***************************************************************************)
MaxPos == 1
MaxVel == 1
MaxFix == 1
MaxAlt == 1
MaxVar == 2
Timeout == 1

(***************************************************************************)
(* Doubles with a NaN.                                                     *)
(***************************************************************************)
NaN == 1000000

isnan(a) == a = NaN

Plus(a, b) == IF isnan(a) \/ isnan(b) THEN NaN ELSE a + b

Minus(a, b) == IF isnan(a) \/ isnan(b) THEN NaN ELSE a - b

Times(a, b) == IF isnan(a) \/ isnan(b) THEN NaN ELSE a * b

Neg(a) == IF isnan(a) THEN NaN ELSE 0 - a

Half(a) == IF isnan(a) THEN NaN ELSE a \div 2

Abs(a) == IF a < 0 THEN 0 - a ELSE a

Min(a, b) == IF a < b THEN a ELSE b

(***************************************************************************)
(* Status flags (SystemStatus is a bit mask; a mask is the set of its      *)
(* flags).  gps.cpp and height.cpp spell the position and velocity flags   *)
(* STATE_XY_POSITION, STATE_XY_VELOCITY and STATE_Z_POSITION; they are the *)
(* flags the system model spells STATE_POSITION_XY, STATE_VELOCITY_XY and  *)
(* STATE_POSITION_Z.                                                       *)
(***************************************************************************)
STATE_ROLLPITCH == "ROLLPITCH"
STATE_RATE_XY == "RATE_XY"
STATE_RATE_Z == "RATE_Z"
STATE_VELOCITY_XY == "VELOCITY_XY"
STATE_VELOCITY_Z == "VELOCITY_Z"
STATE_POSITION_XY == "POSITION_XY"
STATE_POSITION_Z == "POSITION_Z"

StatusFlags ==
  {STATE_ROLLPITCH, STATE_RATE_XY, STATE_RATE_Z, STATE_VELOCITY_XY,
   STATE_VELOCITY_Z, STATE_POSITION_XY, STATE_POSITION_Z}

VARIABLES
  state,               \* PoseEstimation: the mean of the filter (StateVector)
  covariance,          \* PoseEstimation: the variance level of each block
  status_,             \* PoseEstimation::status_
  measurement_status_, \* PoseEstimation::measurement_status_
  global_reference_,   \* PoseEstimation::global_reference_
  gps,                 \* the GPS measurement object
  height,              \* the Height measurement object with its HeightModel
  x_dot_,              \* the derivative vector getDerivative is given to fill
  A,                   \* the system matrix getStateJacobian is given to fill
  Q,                   \* the noise matrix getSystemNoise is given to fill
  update_,             \* an Update_ envelope (measurement_update.h)
  parameters_,         \* ObjectTracker: the parameters the constructor read
  objects,             \* ObjectTracker::model, the objects by their id
  model_mutex,         \* the lock of the model: the thread that holds it, or NULL
  callbacks,           \* what each spinner thread is executing, and where
  controller,          \* GazeboQuadrotorSimpleController
  last                 \* the operation performed last, with what it did

vars ==
  <<state, covariance, status_, measurement_status_, global_reference_,
    gps, height, x_dot_, A, Q, update_,
    parameters_, objects, model_mutex, callbacks, controller, last>>

estimatorVars ==
  <<state, covariance, status_, measurement_status_, global_reference_,
    gps, height, x_dot_, A, Q, update_>>

trackerVars == <<parameters_, objects, model_mutex, callbacks>>

controllerVars == <<controller>>

(***************************************************************************)
(* GlobalReference: the anchor of the local frame.  A position that was    *)
(* never set is NaN.  The heading reference is counted in quarter turns,   *)
(* so that the rotation between north/east and the local axes is exact.    *)
(***************************************************************************)
MaxHeading == 1

HeadingSet == 0..MaxHeading

Cos4(h) == CASE h % 4 = 0 -> 1 [] h % 4 = 1 -> 0 [] h % 4 = 2 -> -1 [] OTHER -> 0

Sin4(h) == CASE h % 4 = 0 -> 0 [] h % 4 = 1 -> 1 [] h % 4 = 2 -> 0 [] OTHER -> -1

setPosition(ref, latitude, longitude) ==
  [ref EXCEPT !.latitude = latitude, !.longitude = longitude]

setAltitude(ref, altitude) == [ref EXCEPT !.altitude = altitude]

fromNorthEast(ref, north, east) ==
  <<Plus(Times(north, Cos4(ref.heading)), Times(east, Sin4(ref.heading))),
    Minus(Times(east, Cos4(ref.heading)), Times(north, Sin4(ref.heading)))>>

toNorthEast(ref, x, y) ==
  <<Minus(Times(x, Cos4(ref.heading)), Times(y, Sin4(ref.heading))),
    Plus(Times(x, Sin4(ref.heading)), Times(y, Cos4(ref.heading)))>>

fromWGS84(ref, latitude, longitude) ==
  fromNorthEast(ref, Minus(latitude, ref.latitude), Minus(longitude, ref.longitude))

toWGS84(ref, x, y) ==
  LET ne == toNorthEast(ref, x, y)
  IN  <<Plus(ref.latitude, ne[1]), Plus(ref.longitude, ne[2])>>

(***************************************************************************)
(* GPS (gps.cpp).  reference_ is a pointer: null, or the address of the    *)
(* estimator's global reference, so every conversion made through it reads *)
(* the reference as it is at the time of the call.                         *)
(***************************************************************************)
NULL == "null"

globalReference == "globalReference"

\* Measurement::timedout(): no successful update for longer than the timeout.
timedout(m) == m.timer_ > Timeout

GPSModel_getStatusFlags == {STATE_VELOCITY_XY, STATE_POSITION_XY}

GPSModel_ExpectedValueGet(x_) ==
  <<x_.POSITION_X, x_.POSITION_Y, x_.VELOCITY_X, x_.VELOCITY_Y>>

\* The state component each row of C_ observes (the one entry set to 1.0).
GPSModel_dfGet ==
  <<"POSITION_X", "POSITION_Y", "VELOCITY_X", "VELOCITY_Y">>

GPS_onReset(g) == [g EXCEPT !.reference_ = NULL]

\* getVector without the test of line 90: it converts through the reference
\* also when the measurement holds none.
GPS_getVector_unchecked(g, ref, update) ==
  LET p == fromWGS84(ref, update.latitude, update.longitude)
      v == fromNorthEast(ref, update.velocity_north, update.velocity_east)
  IN  [g EXCEPT !.y_ = <<p[1], p[2], v[1], v[2]>>, !.last_ = <<update>>]

\* A getVector that converts the fix and does not keep it as the last one.
GPS_getVector_forgetful(g, ref, update) ==
  IF g.reference_ = NULL
  THEN [g EXCEPT !.y_ = <<NaN, NaN, NaN, NaN>>]
  ELSE LET p == fromWGS84(ref, update.latitude, update.longitude)
           v == fromNorthEast(ref, update.velocity_north, update.velocity_east)
       IN  [g EXCEPT !.y_ = <<p[1], p[2], v[1], v[2]>>]

GPS_getVector(g, ref, update) ==
  IF g.reference_ = NULL
  THEN [g EXCEPT !.y_ = <<NaN, NaN, NaN, NaN>>]
  ELSE LET p == fromWGS84(ref, update.latitude, update.longitude)
           v == fromNorthEast(ref, update.velocity_north, update.velocity_east)
       IN  [g EXCEPT !.y_ = <<p[1], p[2], v[1], v[2]>>, !.last_ = <<update>>]

\* A re-anchoring that puts the anchor at the fix itself.
GPS_newReference_atFix(ref, st, update) ==
  setPosition(ref, update.latitude, update.longitude)

\* A re-anchoring that projects (x, y) instead of (-x, -y).
GPS_newReference_forward(ref, st, update) ==
  LET r1 == setPosition(ref, update.latitude, update.longitude)
      new == toWGS84(r1, st.POSITION_X, st.POSITION_Y)
  IN  setPosition(r1, new[1], new[2])

\* gps.cpp 108-114: the reference position found for a fix and a state.
GPS_newReference(ref, st, update) ==
  LET r1 == setPosition(ref, update.latitude, update.longitude)
      new == toWGS84(r1, Neg(st.POSITION_X), Neg(st.POSITION_Y))
  IN  setPosition(r1, new[1], new[2])

\* A hook that keeps its reference through a timeout.
GPS_keepWhenTimedOut(g) == g

\* gps.cpp 104: the reference is dropped when the measurement has timed out.
GPS_dropIfTimedOut(g) ==
  IF timedout(g) THEN [g EXCEPT !.reference_ = NULL] ELSE g

\* A hook that refuses the fix when the measurement holds no reference.
GPS_beforeUpdate_refusing(g, ref, st, update) ==
  LET g1 == GPS_dropIfTimedOut(g)
  IN  [gps |-> g1, ref |-> ref, ret |-> g1.reference_ = globalReference,
       setPosition |-> FALSE]

\* The result is the GPS object and the global reference after the call, the
\* value returned, and whether setPosition was called.
GPS_beforeUpdate(g, ref, st, update) ==
  LET g1 == GPS_dropIfTimedOut(g)
  IN  IF g1.reference_ # globalReference
      THEN [gps |-> [g1 EXCEPT !.reference_ = globalReference],
            ref |-> GPS_newReference(ref, st, update),
            ret |-> TRUE,
            setPosition |-> TRUE]
      ELSE [gps |-> g1, ref |-> ref, ret |-> TRUE, setPosition |-> FALSE]

(***************************************************************************)
(* Height (height.cpp): HeightModel::elevation_ and the latch of           *)
(* HeightBaroCommon.                                                       *)
(***************************************************************************)
HeightModel_getStatusFlags == {STATE_POSITION_Z}

\* A prediction that leaves the elevation out.
HeightModel_ExpectedValueGet_noElevation(x_, h) == <<x_.POSITION_Z>>

HeightModel_ExpectedValueGet(x_, h) == <<Plus(x_.POSITION_Z, h.elevation_)>>

HeightModel_dfGet == <<"POSITION_Z">>

HeightBaroCommon_onReset(h) == [h EXCEPT !.elevation_initialized_ = FALSE]

\* A resetElevation without the latch: every sample solves the elevation.
HeightBaroCommon_resetElevation_always(h, ref, st, altitude) ==
  LET r1 == setAltitude(ref, Minus(altitude, st.POSITION_Z))
  IN  [height |-> [h EXCEPT !.elevation_initialized_ = TRUE],
       ref |-> r1,
       ret |-> r1.altitude,
       setAltitude |-> TRUE]

\* The result is the latch and the global reference after the call, the
\* altitude returned, and whether setAltitude was called.
HeightBaroCommon_resetElevation(h, ref, st, altitude) ==
  LET solve == ~h.elevation_initialized_
      r1 == IF solve THEN setAltitude(ref, Minus(altitude, st.POSITION_Z)) ELSE ref
  IN  [height |-> [h EXCEPT !.elevation_initialized_ = TRUE],
       ref |-> r1,
       ret |-> r1.altitude,
       setAltitude |-> solve]

Height_onReset(h) == HeightBaroCommon_onReset(h)

\* update is the measurement vector of the Update_<HeightModel> envelope.
Height_beforeUpdate(h, ref, st, update) ==
  LET r == HeightBaroCommon_resetElevation(h, ref, st, update[1])
  IN  [height |-> [r.height EXCEPT !.elevation_ = r.ret],
       ref |-> r.ref,
       ret |-> TRUE,
       setAltitude |-> r.setAltitude]

(***************************************************************************)
(* GenericQuaternionSystemModel (generic_quaternion_system_model.cpp).     *)
(* The state holds the orientation, rate, position and velocity blocks;    *)
(* the body acceleration comes from the inertial input.                    *)
(***************************************************************************)
USE_RATE_SYSTEM_MODEL == FALSE

\* The pass with the test for the velocity made before the position adds it.
getStatusFlags_reordered(measurement_status) ==
  LET f1 == IF STATE_VELOCITY_XY \in measurement_status
            THEN measurement_status \cup {STATE_ROLLPITCH} ELSE measurement_status
      f2 == IF STATE_POSITION_XY \in f1 THEN f1 \cup {STATE_VELOCITY_XY} ELSE f1
      f3 == IF STATE_POSITION_Z \in f2 THEN f2 \cup {STATE_VELOCITY_Z} ELSE f2
      f4 == IF STATE_ROLLPITCH \in f3 THEN f3 \cup {STATE_RATE_XY} ELSE f3
  IN  IF USE_RATE_SYSTEM_MODEL THEN f4 ELSE f4 \cup {STATE_RATE_XY, STATE_RATE_Z}

getStatusFlags(measurement_status) ==
  LET f1 == IF STATE_POSITION_XY \in measurement_status
            THEN measurement_status \cup {STATE_VELOCITY_XY} ELSE measurement_status
      f2 == IF STATE_POSITION_Z \in f1 THEN f1 \cup {STATE_VELOCITY_Z} ELSE f1
      f3 == IF STATE_VELOCITY_XY \in f2 THEN f2 \cup {STATE_ROLLPITCH} ELSE f2
      f4 == IF STATE_ROLLPITCH \in f3 THEN f3 \cup {STATE_RATE_XY} ELSE f3
  IN  IF USE_RATE_SYSTEM_MODEL THEN f4 ELSE f4 \cup {STATE_RATE_XY, STATE_RATE_Z}

\* The blocks a state can hold, and the index of each: -1 when the state does
\* not hold the block.
ORIENTATION == "orientation"

RATE == "rate"

POSITION == "position"

VELOCITY == "velocity"

AllBlocks == {ORIENTATION, RATE, POSITION, VELOCITY}

getOrientationIndex(blocks) == IF ORIENTATION \in blocks THEN 0 ELSE -1

getRateIndex(blocks) == IF RATE \in blocks THEN 0 ELSE -1

getPositionIndex(blocks) == IF POSITION \in blocks THEN 0 ELSE -1

getVelocityIndex(blocks) == IF VELOCITY \in blocks THEN 0 ELSE -1

\* A getDerivative that writes the vertical velocity and the vertical position
\* whatever the status is.
getDerivative_ungated(x_dot, st, blocks, status, acceleration, gravity) ==
  LET qw == st.QUATERNION_W
      qx == st.QUATERNION_X
      qy == st.QUATERNION_Y
      qz == st.QUATERNION_Z
      rx == st.RATE_X
      ry == st.RATE_Y
      rz == st.RATE_Z
      ax == acceleration[1]
      ay == acceleration[2]
      az == acceleration[3]
      d1 == IF getOrientationIndex(blocks) >= 0
            THEN [x_dot EXCEPT
                    !.QUATERNION_W = Half((0 - rx) * qx + (0 - ry) * qy + (0 - rz) * qz),
                    !.QUATERNION_X = Half(rx * qw + rz * qy + (0 - ry) * qz),
                    !.QUATERNION_Y = Half(ry * qw + (0 - rz) * qx + rx * qz),
                    !.QUATERNION_Z = Half(rz * qw + ry * qx + (0 - rx) * qy)]
            ELSE x_dot
      d2 == IF STATE_VELOCITY_XY \in status /\ getVelocityIndex(blocks) >= 0
            THEN [d1 EXCEPT
                    !.VELOCITY_X = (qw * qw + qx * qx - qy * qy - qz * qz) * ax
                                   + (2 * qx * qy - 2 * qw * qz) * ay
                                   + (2 * qx * qz + 2 * qw * qy) * az,
                    !.VELOCITY_Y = (2 * qx * qy + 2 * qw * qz) * ax
                                   + (qw * qw - qx * qx + qy * qy - qz * qz) * ay
                                   + (2 * qy * qz - 2 * qw * qx) * az]
            ELSE d1
      d3 == IF getVelocityIndex(blocks) >= 0
            THEN [d2 EXCEPT
                    !.VELOCITY_Z = (2 * qx * qz - 2 * qw * qy) * ax
                                   + (2 * qy * qz + 2 * qw * qx) * ay
                                   + (qw * qw - qx * qx - qy * qy + qz * qz) * az
                                   + gravity]
            ELSE d2
      d4 == IF STATE_POSITION_XY \in status
            THEN [d3 EXCEPT !.POSITION_X = st.VELOCITY_X, !.POSITION_Y = st.VELOCITY_Y]
            ELSE d3
  IN  IF TRUE
      THEN [d4 EXCEPT !.POSITION_Z = st.VELOCITY_Z]
      ELSE d4

\* A getDerivative whose vertical velocity row leaves the gravity term out.
getDerivative_noGravity(x_dot, st, blocks, status, acceleration, gravity) ==
  LET qw == st.QUATERNION_W
      qx == st.QUATERNION_X
      qy == st.QUATERNION_Y
      qz == st.QUATERNION_Z
      rx == st.RATE_X
      ry == st.RATE_Y
      rz == st.RATE_Z
      ax == acceleration[1]
      ay == acceleration[2]
      az == acceleration[3]
      d1 == IF getOrientationIndex(blocks) >= 0
            THEN [x_dot EXCEPT
                    !.QUATERNION_W = Half((0 - rx) * qx + (0 - ry) * qy + (0 - rz) * qz),
                    !.QUATERNION_X = Half(rx * qw + rz * qy + (0 - ry) * qz),
                    !.QUATERNION_Y = Half(ry * qw + (0 - rz) * qx + rx * qz),
                    !.QUATERNION_Z = Half(rz * qw + ry * qx + (0 - rx) * qy)]
            ELSE x_dot
      d2 == IF STATE_VELOCITY_XY \in status /\ getVelocityIndex(blocks) >= 0
            THEN [d1 EXCEPT
                    !.VELOCITY_X = (qw * qw + qx * qx - qy * qy - qz * qz) * ax
                                   + (2 * qx * qy - 2 * qw * qz) * ay
                                   + (2 * qx * qz + 2 * qw * qy) * az,
                    !.VELOCITY_Y = (2 * qx * qy + 2 * qw * qz) * ax
                                   + (qw * qw - qx * qx + qy * qy - qz * qz) * ay
                                   + (2 * qy * qz - 2 * qw * qx) * az]
            ELSE d1
      d3 == IF STATE_VELOCITY_Z \in status /\ getVelocityIndex(blocks) >= 0
            THEN [d2 EXCEPT
                    !.VELOCITY_Z = (2 * qx * qz - 2 * qw * qy) * ax
                                   + (2 * qy * qz + 2 * qw * qx) * ay
                                   + (qw * qw - qx * qx - qy * qy + qz * qz) * az]
            ELSE d2
      d4 == IF STATE_POSITION_XY \in status
            THEN [d3 EXCEPT !.POSITION_X = st.VELOCITY_X, !.POSITION_Y = st.VELOCITY_Y]
            ELSE d3
  IN  IF STATE_POSITION_Z \in status
      THEN [d4 EXCEPT !.POSITION_Z = st.VELOCITY_Z]
      ELSE d4

\* A getDerivative that integrates the horizontal velocity whatever the status is.
getDerivative_integrating(x_dot, st, blocks, status, acceleration, gravity) ==
  LET qw == st.QUATERNION_W
      qx == st.QUATERNION_X
      qy == st.QUATERNION_Y
      qz == st.QUATERNION_Z
      rx == st.RATE_X
      ry == st.RATE_Y
      rz == st.RATE_Z
      ax == acceleration[1]
      ay == acceleration[2]
      az == acceleration[3]
      d1 == IF getOrientationIndex(blocks) >= 0
            THEN [x_dot EXCEPT
                    !.QUATERNION_W = Half((0 - rx) * qx + (0 - ry) * qy + (0 - rz) * qz),
                    !.QUATERNION_X = Half(rx * qw + rz * qy + (0 - ry) * qz),
                    !.QUATERNION_Y = Half(ry * qw + (0 - rz) * qx + rx * qz),
                    !.QUATERNION_Z = Half(rz * qw + ry * qx + (0 - rx) * qy)]
            ELSE x_dot
      d2 == IF STATE_VELOCITY_XY \in status /\ getVelocityIndex(blocks) >= 0
            THEN [d1 EXCEPT
                    !.VELOCITY_X = (qw * qw + qx * qx - qy * qy - qz * qz) * ax
                                   + (2 * qx * qy - 2 * qw * qz) * ay
                                   + (2 * qx * qz + 2 * qw * qy) * az,
                    !.VELOCITY_Y = (2 * qx * qy + 2 * qw * qz) * ax
                                   + (qw * qw - qx * qx + qy * qy - qz * qz) * ay
                                   + (2 * qy * qz - 2 * qw * qx) * az]
            ELSE d1
      d3 == IF STATE_VELOCITY_Z \in status /\ getVelocityIndex(blocks) >= 0
            THEN [d2 EXCEPT
                    !.VELOCITY_Z = (2 * qx * qz - 2 * qw * qy) * ax
                                   + (2 * qy * qz + 2 * qw * qx) * ay
                                   + (qw * qw - qx * qx - qy * qy + qz * qz) * az
                                   + gravity]
            ELSE d2
      d4 == IF TRUE
            THEN [d3 EXCEPT !.POSITION_X = st.VELOCITY_X, !.POSITION_Y = st.VELOCITY_Y]
            ELSE d3
  IN  IF STATE_POSITION_Z \in status
      THEN [d4 EXCEPT !.POSITION_Z = st.VELOCITY_Z]
      ELSE d4

\* x_dot as getDerivative leaves it: the components it does not write keep
\* the value the caller passed in.  The rate is the one prepareUpdate took
\* from the state.
getDerivative(x_dot, st, blocks, status, acceleration, gravity) ==
  LET qw == st.QUATERNION_W
      qx == st.QUATERNION_X
      qy == st.QUATERNION_Y
      qz == st.QUATERNION_Z
      rx == st.RATE_X
      ry == st.RATE_Y
      rz == st.RATE_Z
      ax == acceleration[1]
      ay == acceleration[2]
      az == acceleration[3]
      d1 == IF getOrientationIndex(blocks) >= 0
            THEN [x_dot EXCEPT
                    !.QUATERNION_W = Half((0 - rx) * qx + (0 - ry) * qy + (0 - rz) * qz),
                    !.QUATERNION_X = Half(rx * qw + rz * qy + (0 - ry) * qz),
                    !.QUATERNION_Y = Half(ry * qw + (0 - rz) * qx + rx * qz),
                    !.QUATERNION_Z = Half(rz * qw + ry * qx + (0 - rx) * qy)]
            ELSE x_dot
      d2 == IF STATE_VELOCITY_XY \in status /\ getVelocityIndex(blocks) >= 0
            THEN [d1 EXCEPT
                    !.VELOCITY_X = (qw * qw + qx * qx - qy * qy - qz * qz) * ax
                                   + (2 * qx * qy - 2 * qw * qz) * ay
                                   + (2 * qx * qz + 2 * qw * qy) * az,
                    !.VELOCITY_Y = (2 * qx * qy + 2 * qw * qz) * ax
                                   + (qw * qw - qx * qx + qy * qy - qz * qz) * ay
                                   + (2 * qy * qz - 2 * qw * qx) * az]
            ELSE d1
      d3 == IF STATE_VELOCITY_Z \in status /\ getVelocityIndex(blocks) >= 0
            THEN [d2 EXCEPT
                    !.VELOCITY_Z = (2 * qx * qz - 2 * qw * qy) * ax
                                   + (2 * qy * qz + 2 * qw * qx) * ay
                                   + (qw * qw - qx * qx - qy * qy + qz * qz) * az
                                   + gravity]
            ELSE d2
      d4 == IF STATE_POSITION_XY \in status
            THEN [d3 EXCEPT !.POSITION_X = st.VELOCITY_X, !.POSITION_Y = st.VELOCITY_Y]
            ELSE d3
  IN  IF STATE_POSITION_Z \in status
      THEN [d4 EXCEPT !.POSITION_Z = st.VELOCITY_Z]
      ELSE d4

\* The matrix M with the entries written into it; the writes are a function
\* from <<row, column>> to the value written.
Written(M, writes) == writes @@ M

\* No entry written.
NoWrite == [e \in {} |-> 0]

\* The entries of the writes given, set to 0.0.
Zeroed(writes) == [e \in DOMAIN writes |-> 0]

\* The rows VELOCITY_X and VELOCITY_Y of getStateJacobian (lines 208-219),
\* doubled.
VelocityXYRows(st, acceleration) ==
  LET qw == st.QUATERNION_W
      qx == st.QUATERNION_X
      qy == st.QUATERNION_Y
      qz == st.QUATERNION_Z
      ax == acceleration[1]
      ay == acceleration[2]
      az == acceleration[3]
  IN  <<"VELOCITY_X", "QUATERNION_W">> :> (2 * ((0 - 2) * qz * ay + 2 * qy * az + 2 * qw * ax)) @@
      <<"VELOCITY_X", "QUATERNION_X">> :> (2 * (2 * qy * ay + 2 * qz * az + 2 * qx * ax)) @@
      <<"VELOCITY_X", "QUATERNION_Y">> :> (2 * ((0 - 2) * qy * ax + 2 * qx * ay + 2 * qw * az)) @@
      <<"VELOCITY_X", "QUATERNION_Z">> :> (2 * ((0 - 2) * qz * ax - 2 * qw * ay + 2 * qx * az)) @@
      <<"VELOCITY_Y", "QUATERNION_W">> :> (2 * (2 * qz * ax - 2 * qx * az + 2 * qw * ay)) @@
      <<"VELOCITY_Y", "QUATERNION_X">> :> (2 * (2 * qy * ax - 2 * qx * ay - 2 * qw * az)) @@
      <<"VELOCITY_Y", "QUATERNION_Y">> :> (2 * (2 * qx * ax + 2 * qz * az + 2 * qy * ay)) @@
      <<"VELOCITY_Y", "QUATERNION_Z">> :> (2 * (2 * qw * ax - 2 * qz * ay + 2 * qy * az))

\* The row VELOCITY_Z of getStateJacobian (lines 243-246), doubled.
VelocityZRow(st, acceleration) ==
  LET qw == st.QUATERNION_W
      qx == st.QUATERNION_X
      qy == st.QUATERNION_Y
      qz == st.QUATERNION_Z
      ax == acceleration[1]
      ay == acceleration[2]
      az == acceleration[3]
  IN  <<"VELOCITY_Z", "QUATERNION_W">> :> (2 * ((0 - 2) * qy * ax + 2 * qx * ay + 2 * qw * az)) @@
      <<"VELOCITY_Z", "QUATERNION_X">> :> (2 * (2 * qz * ax + 2 * qw * ay - 2 * qx * az)) @@
      <<"VELOCITY_Z", "QUATERNION_Y">> :> (2 * ((0 - 2) * qw * ax + 2 * qz * ay - 2 * qy * az)) @@
      <<"VELOCITY_Z", "QUATERNION_Z">> :> (2 * (2 * qx * ax + 2 * qy * ay + 2 * qz * az))

\* The rows of the quaternion, doubled: the columns of the quaternion (lines
\* 174-185) and, when the state holds the rate, the columns of the rate
\* (188-202).
QuaternionRows(st, blocks) ==
  LET qw == st.QUATERNION_W
      qx == st.QUATERNION_X
      qy == st.QUATERNION_Y
      qz == st.QUATERNION_Z
      rx == st.RATE_X
      ry == st.RATE_Y
      rz == st.RATE_Z
      quaternion ==
        <<"QUATERNION_W", "QUATERNION_X">> :> (0 - rx) @@
        <<"QUATERNION_W", "QUATERNION_Y">> :> (0 - ry) @@
        <<"QUATERNION_W", "QUATERNION_Z">> :> (0 - rz) @@
        <<"QUATERNION_X", "QUATERNION_W">> :> (rx) @@
        <<"QUATERNION_X", "QUATERNION_Y">> :> (rz) @@
        <<"QUATERNION_X", "QUATERNION_Z">> :> (0 - ry) @@
        <<"QUATERNION_Y", "QUATERNION_W">> :> (ry) @@
        <<"QUATERNION_Y", "QUATERNION_X">> :> (0 - rz) @@
        <<"QUATERNION_Y", "QUATERNION_Z">> :> (rx) @@
        <<"QUATERNION_Z", "QUATERNION_W">> :> (rz) @@
        <<"QUATERNION_Z", "QUATERNION_X">> :> (ry) @@
        <<"QUATERNION_Z", "QUATERNION_Y">> :> (0 - rx)
      rate ==
        <<"QUATERNION_W", "RATE_X">> :> (0 - qx) @@
        <<"QUATERNION_W", "RATE_Y">> :> (0 - qy) @@
        <<"QUATERNION_W", "RATE_Z">> :> (0 - qz) @@
        <<"QUATERNION_X", "RATE_X">> :> (qw) @@
        <<"QUATERNION_X", "RATE_Y">> :> (0 - qz) @@
        <<"QUATERNION_X", "RATE_Z">> :> (qy) @@
        <<"QUATERNION_Y", "RATE_X">> :> (qz) @@
        <<"QUATERNION_Y", "RATE_Y">> :> (qw) @@
        <<"QUATERNION_Y", "RATE_Z">> :> (0 - qx) @@
        <<"QUATERNION_Z", "RATE_X">> :> (0 - qy) @@
        <<"QUATERNION_Z", "RATE_Y">> :> (qx) @@
        <<"QUATERNION_Z", "RATE_Z">> :> (qw)
  IN  IF getRateIndex(blocks) >= 0 THEN quaternion @@ rate ELSE quaternion

\* A getStateJacobian without the else branches: it leaves the entries of an
\* inactive flag as they are.
getStateJacobian_noElse(M, st, blocks, status, acceleration) ==
  LET a1 == IF getOrientationIndex(blocks) >= 0
            THEN Written(M, QuaternionRows(st, blocks))
            ELSE M
      a2 == IF getVelocityIndex(blocks) >= 0 /\ getOrientationIndex(blocks) >= 0
            THEN LET xy == IF STATE_VELOCITY_XY \in status
                           THEN VelocityXYRows(st, acceleration)
                           ELSE NoWrite
                     z == IF STATE_VELOCITY_Z \in status
                          THEN VelocityZRow(st, acceleration)
                          ELSE NoWrite
                 IN  Written(a1, xy @@ z)
            ELSE a1
  IN  IF getPositionIndex(blocks) >= 0 /\ getVelocityIndex(blocks) >= 0
      THEN LET xy == IF STATE_POSITION_XY \in status
                     THEN <<"POSITION_X", "VELOCITY_X">> :> 2 @@
                          <<"POSITION_Y", "VELOCITY_Y">> :> 2
                     ELSE NoWrite
               z == IF STATE_POSITION_Z \in status
                    THEN <<"POSITION_Z", "VELOCITY_Z">> :> 2
                    ELSE NoWrite
           IN  Written(a2, xy @@ z)
      ELSE a2

\* A as getStateJacobian leaves it.  A holds twice the entries of the system
\* matrix, so that the halves of lines 174-202 are whole numbers: an entry 1.0
\* is 2 here, and 0.0 is 0.
getStateJacobian(M, st, blocks, status, acceleration) ==
  LET a1 == IF getOrientationIndex(blocks) >= 0
            THEN Written(M, QuaternionRows(st, blocks))
            ELSE M
      a2 == IF getVelocityIndex(blocks) >= 0 /\ getOrientationIndex(blocks) >= 0
            THEN LET xy == IF STATE_VELOCITY_XY \in status
                           THEN VelocityXYRows(st, acceleration)
                           ELSE Zeroed(VelocityXYRows(st, acceleration))
                     z == IF STATE_VELOCITY_Z \in status
                          THEN VelocityZRow(st, acceleration)
                          ELSE Zeroed(VelocityZRow(st, acceleration))
                 IN  Written(a1, xy @@ z)
            ELSE a1
  IN  IF getPositionIndex(blocks) >= 0 /\ getVelocityIndex(blocks) >= 0
      THEN LET xy == IF STATE_POSITION_XY \in status THEN 2 ELSE 0
               z == IF STATE_POSITION_Z \in status THEN 2 ELSE 0
           IN  Written(a2, <<"POSITION_X", "VELOCITY_X">> :> xy @@
                           <<"POSITION_Y", "VELOCITY_Y">> :> xy @@
                           <<"POSITION_Z", "VELOCITY_Z">> :> z)
      ELSE a2

Pow2(a) == a * a

\* 0.25 * a, for the multiples of 4 the model computes with.
Quarter(a) == a \div 4

\* A getSystemNoise that seeds the diagonal on every call.
getSystemNoise_reseeding(N, st, blocks, parameters, init) ==
  LET n1 == IF getRateIndex(blocks) >= 0
            THEN [N EXCEPT !.RATE_X = Pow2(parameters.angular_acceleration_stddev_),
                           !.RATE_Y = Pow2(parameters.angular_acceleration_stddev_),
                           !.RATE_Z = Pow2(parameters.angular_acceleration_stddev_)]
            ELSE N
      n2 == IF getPositionIndex(blocks) >= 0
            THEN [n1 EXCEPT !.POSITION_X = Pow2(parameters.velocity_stddev_),
                            !.POSITION_Y = Pow2(parameters.velocity_stddev_),
                            !.POSITION_Z = Pow2(parameters.velocity_stddev_)]
            ELSE n1
      n3 == IF getRateIndex(blocks) >= 0
            THEN [n2 EXCEPT !.VELOCITY_X = Pow2(parameters.acceleration_stddev_),
                            !.VELOCITY_Y = Pow2(parameters.acceleration_stddev_),
                            !.VELOCITY_Z = Pow2(parameters.acceleration_stddev_)]
            ELSE n2
  IN  IF parameters.rate_stddev_ > 0 /\ getOrientationIndex(blocks) >= 0
      THEN LET qw == st.QUATERNION_W
               qx == st.QUATERNION_X
               qy == st.QUATERNION_Y
               qz == st.QUATERNION_Z
               rate_variance_4 == Quarter(Pow2(parameters.rate_stddev_))
           IN  [n3 EXCEPT
                  !.QUATERNION_W = rate_variance_4 * (qx * qx + qy * qy + qz * qz),
                  !.QUATERNION_X = rate_variance_4 * (qw * qw + qy * qy + qz * qz),
                  !.QUATERNION_Y = rate_variance_4 * (qw * qw + qx * qx + qz * qz),
                  !.QUATERNION_Z = rate_variance_4 * (qw * qw + qx * qx + qy * qy)]
      ELSE n3

\* The diagonal of Q as getSystemNoise leaves it.  The velocity entries are
\* seeded under the test of line 150, which asks for the rate block.
getSystemNoise(N, st, blocks, parameters, init) ==
  LET n1 == IF init /\ getRateIndex(blocks) >= 0
            THEN [N EXCEPT !.RATE_X = Pow2(parameters.angular_acceleration_stddev_),
                           !.RATE_Y = Pow2(parameters.angular_acceleration_stddev_),
                           !.RATE_Z = Pow2(parameters.angular_acceleration_stddev_)]
            ELSE N
      n2 == IF init /\ getPositionIndex(blocks) >= 0
            THEN [n1 EXCEPT !.POSITION_X = Pow2(parameters.velocity_stddev_),
                            !.POSITION_Y = Pow2(parameters.velocity_stddev_),
                            !.POSITION_Z = Pow2(parameters.velocity_stddev_)]
            ELSE n1
      n3 == IF init /\ getRateIndex(blocks) >= 0
            THEN [n2 EXCEPT !.VELOCITY_X = Pow2(parameters.acceleration_stddev_),
                            !.VELOCITY_Y = Pow2(parameters.acceleration_stddev_),
                            !.VELOCITY_Z = Pow2(parameters.acceleration_stddev_)]
            ELSE n2
  IN  IF parameters.rate_stddev_ > 0 /\ getOrientationIndex(blocks) >= 0
      THEN LET qw == st.QUATERNION_W
               qx == st.QUATERNION_X
               qy == st.QUATERNION_Y
               qz == st.QUATERNION_Z
               rate_variance_4 == Quarter(Pow2(parameters.rate_stddev_))
           IN  [n3 EXCEPT
                  !.QUATERNION_W = rate_variance_4 * (qx * qx + qy * qy + qz * qz),
                  !.QUATERNION_X = rate_variance_4 * (qw * qw + qy * qy + qz * qz),
                  !.QUATERNION_Y = rate_variance_4 * (qw * qw + qx * qx + qz * qz),
                  !.QUATERNION_Z = rate_variance_4 * (qw * qw + qx * qx + qy * qy)]
      ELSE n3

(***************************************************************************)
(* Update_ (measurement_update.h): the envelope of one sample.  The        *)
(* constructors size y_ and leave its elements, like R_, as the storage    *)
(* holds them: an element nobody wrote is any value.  The covariance is    *)
(* kept as its variance level.                                             *)
(***************************************************************************)
MeasurementDimension == 3

MaxSample == 1

Samples == 0..MaxSample

Vectors == [1..MeasurementDimension -> Samples]

Covariances == 0..MaxVar

\* No envelope: none constructed yet, or the last one destroyed.
NoUpdate == [y_ |-> <<>>, R_ |-> 0, has_covariance_ |-> FALSE]

Update_setValue(u, y) == [u EXCEPT !.y_ = y]

\* setValue(double): the first element only.
Update_setValueDouble(u, y) == [u EXCEPT !.y_[1] = y]

\* A setCovariance that stores R and leaves the flag.
Update_setCovariance_flagless(u, R) == [u EXCEPT !.R_ = R]

Update_setCovariance(u, R) == [u EXCEPT !.R_ = R, !.has_covariance_ = TRUE]

\* Update_(): what the constructors start from, for the storage found.
Update_default(y, R) == [y_ |-> y, R_ |-> R, has_covariance_ |-> FALSE]

(***************************************************************************)
(* PoseEstimation (pose_estimation.h declares it; the predict / correct    *)
(* cycle follows sections 4.3, 4.5 and 7 of the specification).            *)
(***************************************************************************)
gravity_ == 1

StateComponents ==
  {"QUATERNION_W", "QUATERNION_X", "QUATERNION_Y", "QUATERNION_Z",
   "RATE_X", "RATE_Y", "RATE_Z",
   "POSITION_X", "POSITION_Y", "POSITION_Z",
   "VELOCITY_X", "VELOCITY_Y", "VELOCITY_Z"}

ZeroVector == [c \in StateComponents |-> 0]

\* A matrix over the state, as the filter hands it over before the first call.
ZeroMatrix == [e \in StateComponents \X StateComponents |-> 0]

\* The state after construction and after reset(): level, at rest, at the origin.
InitialState == [ZeroVector EXCEPT !.QUATERNION_W = 1]

\* The block of the covariance a state component belongs to.
Block(c) ==
  CASE c \in {"POSITION_X", "POSITION_Y"} -> STATE_POSITION_XY
    [] c = "POSITION_Z" -> STATE_POSITION_Z
    [] c \in {"VELOCITY_X", "VELOCITY_Y"} -> STATE_VELOCITY_XY
    [] c = "VELOCITY_Z" -> STATE_VELOCITY_Z
    [] c \in {"RATE_X", "RATE_Y"} -> STATE_RATE_XY
    [] c = "RATE_Z" -> STATE_RATE_Z
    [] OTHER -> STATE_ROLLPITCH

CovarianceBlocks ==
  {STATE_POSITION_XY, STATE_POSITION_Z, STATE_VELOCITY_XY, STATE_VELOCITY_Z}

\* getPrior: the position and velocity blocks start with variance 0.
PriorCovariance == [b \in CovarianceBlocks |-> 0]

HasNaN(y) == \E i \in DOMAIN y : isnan(y[i])

StateHasNaN(st) == \E c \in StateComponents : isnan(st[c])

\* The masks applied in the other order: the clear mask, then the set mask.
updateStatus_clearFirst(status, set, clear) == (status \ clear) \cup set

\* updateSystemStatus / updateMeasurementStatus: the set mask, then the clear mask.
updateStatus(status, set, clear) == (status \cup set) \ clear

\* P' = A P A^T + Q dt on the variance levels: the variance of a block that the
\* system status propagates grows, that of any other block stays.
PredictCovariance(cov, status) ==
  [b \in CovarianceBlocks |-> IF b \in status THEN Min(cov[b] + 1, MaxVar) ELSE cov[b]]

\* x += K (y - y^) for the components C observes; the gain of a component whose
\* block has variance 0 is 0.
CorrectMean(st, cov, C, y, yhat) ==
  [c \in StateComponents |->
     IF \E i \in DOMAIN C : C[i] = c /\ cov[Block(c)] > 0
     THEN LET i == CHOOSE j \in DOMAIN C : C[j] = c
          IN  Plus(st[c], Minus(y[i], yhat[i]))
     ELSE st[c]]

\* P = (I - K C) P on the variance levels: an observed block with positive
\* variance gets a smaller, still positive one.
CorrectCovariance(cov, C) ==
  [b \in CovarianceBlocks |->
     IF (\E i \in DOMAIN C : Block(C[i]) = b) /\ cov[b] > 1 THEN cov[b] - 1 ELSE cov[b]]

\* An innovation step that takes any vector.
Innovate_unchecked(st, cov, C, y, yhat) ==
  [state |-> CorrectMean(st, cov, C, y, yhat),
   covariance |-> CorrectCovariance(cov, C),
   ret |-> TRUE]

\* The innovation step of correct: a measurement or a prediction that holds a
\* NaN is rejected, and the state and covariance stay as they are.
Innovate(st, cov, C, y, yhat) ==
  IF HasNaN(y) \/ HasNaN(yhat)
  THEN [state |-> st, covariance |-> cov, ret |-> FALSE]
  ELSE [state |-> CorrectMean(st, cov, C, y, yhat),
        covariance |-> CorrectCovariance(cov, C),
        ret |-> TRUE]

\* Measurement::updated(): a successful correction restarts the timer and makes
\* the measurement contribute the flags of its model.
Measurement_updated(m, flags) == [m EXCEPT !.timer_ = 0, !.status_flags_ = flags]

\* One predict step lets dt = 1 pass for a measurement; a measurement that has
\* timed out contributes no flags.
Measurement_increaseTimer(m) ==
  LET m1 == [m EXCEPT !.timer_ = Min(m.timer_ + 1, Timeout + 1)]
  IN  IF timedout(m1) THEN [m1 EXCEPT !.status_flags_ = {}] ELSE m1

InBounds(st) ==
  /\ \A c \in {"POSITION_X", "POSITION_Y", "POSITION_Z"} :
       isnan(st[c]) \/ Abs(st[c]) <= MaxPos
  /\ \A c \in {"VELOCITY_X", "VELOCITY_Y", "VELOCITY_Z"} :
       isnan(st[c]) \/ Abs(st[c]) <= MaxVel
  /\ st.QUATERNION_W * st.QUATERNION_W + st.QUATERNION_X * st.QUATERNION_X
       + st.QUATERNION_Y * st.QUATERNION_Y + st.QUATERNION_Z * st.QUATERNION_Z = 1

Op(name) ==
  [op |-> name, update |-> <<>>, ret |-> TRUE, setPosition |-> FALSE, setAltitude |-> FALSE,
   thrown |-> FALSE]

(***************************************************************************)
(* ObjectTracker (object_tracker.cpp).  The object model maps the id of an *)
(* object to its state, its support and the stamp of its header.  The      *)
(* callbacks run on spinner threads; each thread is idle or at a position  *)
(* of one callback, with the request and the object pointer it holds.      *)
(* Object.h and the object model are not part of the sources: an object    *)
(* starts UNKNOWN with a zero stamp, intersect and addSupport add to the   *)
(* support, and the lock is a mutex one thread holds at a time.            *)
(***************************************************************************)
Threads == {"spinner1", "spinner2"}

ObjectIds == {"victim_0", "victim_1"}

\* worldmodel_msgs::ObjectState; a negative state is a fixed one.
UNKNOWN == 0

PENDING == 1

ACTIVE == 2

CONFIRMED == 0 - 1

DISCARDED == 0 - 2

ObjectStates == {UNKNOWN, PENDING, ACTIVE, CONFIRMED, DISCARDED}

MaxSupport == 3

MaxStamp == 1

NoObjects == [i \in {} |-> 0]

NewObject == [state |-> UNKNOWN, support |-> 0, stamp |-> 0]

\* The parameters before the constructor has run, with the defaults of
\* lines 27-31.
NoTracker ==
  [constructed |-> FALSE, pending_support |-> 0, pending_time |-> 0,
   active_support |-> 0, active_time |-> 0, ageing_threshold |-> 1,
   verification |-> FALSE]

NoRequest == [object_id |-> "", support |-> 0, stamp |-> 0, state |-> UNKNOWN]

Idle == [cb |-> "", pc |-> "", request |-> NoRequest, object |-> NULL, newObject |-> FALSE]

\* Object::addSupport, with the support the model can hold.
addSupport(object, support) ==
  [object EXCEPT !.support = Min(object.support + support, MaxSupport)]

\* A promotion that makes an object with the support and the age of an
\* active one ACTIVE, whatever its state was.
UpdateObjectState_direct(object, stamp, parameters) ==
  IF /\ object.state \in {UNKNOWN, PENDING}
     /\ parameters.active_support > 0
     /\ object.support >= parameters.active_support
     /\ stamp - object.stamp >= parameters.active_time
  THEN [object EXCEPT !.state = ACTIVE]
  ELSE object

\* Lines 379-390 of posePerceptCb: the state of the object after the two
\* promotion tests, for a percept with the given stamp.
UpdateObjectState(object, stamp, parameters) ==
  LET elapsed == stamp - object.stamp
      o1 == IF /\ object.state = UNKNOWN
               /\ parameters.pending_support > 0
               /\ object.support >= parameters.pending_support
               /\ elapsed >= parameters.pending_time
            THEN [object EXCEPT !.state = PENDING]
            ELSE object
  IN  IF /\ o1.state = PENDING
         /\ parameters.active_support > 0
         /\ o1.support >= parameters.active_support
         /\ elapsed >= parameters.active_time
      THEN [o1 EXCEPT !.state = ACTIVE]
      ELSE o1

\* The sequence without its i-th element: what erase leaves.
Erase(list, i) == [j \in 1..(Len(list) - 1) |-> IF j < i THEN list[j] ELSE list[j + 1]]

\* The function without one element of its domain: ObjectModel::remove.
Remove(objs, id) == [i \in (DOMAIN objs) \ {id} |-> objs[i]]

\* An ageing loop that steps on after an erase as after any other object.
RECURSIVE AgeingLoop_stepping(_, _, _, _, _)
AgeingLoop_stepping(list, it, objs, ageing, threshold) ==
  IF it > Len(list)
  THEN objs
  ELSE LET id == list[it]
           aged == [objs EXCEPT ![id].support = objs[id].support - ageing]
       IN  IF aged[id].support < threshold
           THEN AgeingLoop_stepping(Erase(list, it), it + 1, Remove(aged, id), ageing,
                                    threshold)
           ELSE AgeingLoop_stepping(list, it + 1, aged, ageing, threshold)

\* Lines 464-478 of objectAgeingCb: the loop over the copied list, from the
\* iterator position it on; erase gives the position of the next object.
RECURSIVE AgeingLoop(_, _, _, _, _)
AgeingLoop(list, it, objs, ageing, threshold) ==
  IF it > Len(list)
  THEN objs
  ELSE LET id == list[it]
           aged == [objs EXCEPT ![id].support = objs[id].support - ageing]
       IN  IF aged[id].support < threshold
           THEN AgeingLoop(Erase(list, it), it, Remove(aged, id), ageing, threshold)
           ELSE AgeingLoop(list, it + 1, aged, ageing, threshold)

\* The order of the ids in the list of the model.
LessId(i, j) == i = "victim_0" /\ j = "victim_1"

\* The objects of the model in the order of its list.
RECURSIVE ListOf(_)
ListOf(ids) ==
  IF ids = {} THEN <<>>
  ELSE LET id == CHOOSE i \in ids : \A j \in ids : i = j \/ LessId(i, j)
       IN  <<id>> \o ListOf(ids \ {id})

(***************************************************************************)
(* GazeboQuadrotorSimpleController (quadrotor_simple_controller.cpp).      *)
(* Doubles are integers with the NaN above; a comparison with a NaN is     *)
(* false.  The filter of a PID controller divides by dt + time_constant,   *)
(* which is 1 in the model whenever it is positive.                        *)
(***************************************************************************)
Gt(a, b) == ~isnan(a) /\ ~isnan(b) /\ a > b

Lt(a, b) == ~isnan(a) /\ ~isnan(b) /\ a < b

Div(a, b) == IF isnan(a) \/ isnan(b) THEN NaN ELSE a \div b

Controllers == {"roll", "pitch", "yaw", "velocity_x", "velocity_y", "velocity_z"}

\* PIDController::reset, lines 178-182.
PIDController_reset(pid) ==
  [pid EXCEPT !.input = 0, !.dinput = 0, !.p = 0, !.i = 0, !.d = 0, !.output = 0]

\* PIDController::PIDController, lines 120-131: the defaults of the
\* parameters, and a reset.
PIDController ==
  [gain_p |-> 0, gain_d |-> 0, gain_i |-> 0, time_constant |-> 0, limit |-> 0 - 1,
   input |-> 0, dinput |-> 0, p |-> 0, i |-> 0, d |-> 0, output |-> 0]

\* PIDController::update, lines 157-176: the controller after the update;
\* its output field is the value returned.
PIDController_update(pid, new_input, x, dx, dt) ==
  LET limited == IF pid.limit > 0 /\ Gt(Abs(new_input), pid.limit)
                 THEN (IF Lt(new_input, 0) THEN 0 - 1 ELSE 1) * pid.limit
                 ELSE new_input
      filtered == dt + pid.time_constant > 0
      dinput == IF filtered
                THEN Div(Minus(limited, pid.input), dt + pid.time_constant)
                ELSE pid.dinput
      input == IF filtered
               THEN Div(Plus(Times(dt, limited), Times(pid.time_constant, pid.input)),
                        dt + pid.time_constant)
               ELSE pid.input
      p == Minus(input, x)
      d == Minus(dinput, dx)
      i == Plus(pid.i, Times(dt, p))
  IN  [pid EXCEPT !.input = input, !.dinput = dinput, !.p = p, !.d = d, !.i = i,
                  !.output = Plus(Plus(Times(pid.gain_p, p), Times(pid.gain_d, d)),
                                  Times(pid.gain_i, i))]

ZeroVector3 == [x |-> 0, y |-> 0, z |-> 0]

ZeroTwist == [linear |-> ZeroVector3, angular |-> ZeroVector3]

\* The controller after its constructor, lines 47-67, on a body at rest.
NoController ==
  [loaded |-> FALSE, max_force_ |-> 0 - 1, mass |-> 1, inertia |-> 1,
   velocity_command_ |-> ZeroTwist,
   controllers_ |-> [c \in Controllers |-> PIDController],
   force |-> ZeroVector3, torque |-> ZeroVector3]

(***************************************************************************)
(* Inputs.                                                                 *)
(***************************************************************************)
GPSUpdates ==
  {[latitude |-> p[1], longitude |-> p[2], velocity_north |-> Min(p[2], MaxVel),
    velocity_east |-> 0] :
     p \in {q \in (0..MaxFix) \X (0..MaxFix) : q[1] + q[2] <= MaxFix}}

\* A fix of a receiver that has lost the signal: the latitude is NaN.
NaNFixes ==
  {[latitude |-> NaN, longitude |-> 0, velocity_north |-> 0, velocity_east |-> 0]}

FixAtOrigin ==
  [latitude |-> 0, longitude |-> 0, velocity_north |-> 0, velocity_east |-> 0]

HeightUpdates == {<<a>> : a \in 0..MaxAlt}

Hover == <<0, 0, 0 - gravity_>>

Climb == <<0, 0, 1 - gravity_>>

\* A body acceleration forward and upward.
Push == <<1, 0, 1 - gravity_>>

Accelerations == {Hover, Push}

\* The states the system model is called with: level at rest, level and
\* moving, and rolled half a turn while turning about the roll axis.
LevelAtRest == InitialState

LevelMoving ==
  [InitialState EXCEPT !.VELOCITY_X = 1, !.VELOCITY_Y = 0 - 1, !.VELOCITY_Z = 1]

RolledTurning == [ZeroVector EXCEPT !.QUATERNION_X = 1, !.RATE_X = 2]

SystemStates == {LevelAtRest, LevelMoving, RolledTurning}

\* The system statuses the velocity and position rows depend on.
SystemStatuses ==
  SUBSET {STATE_VELOCITY_XY, STATE_VELOCITY_Z, STATE_POSITION_XY, STATE_POSITION_Z}

BlockSets == {AllBlocks, AllBlocks \ {VELOCITY}, AllBlocks \ {ORIENTATION}}

\* The standard deviations the system model is configured with; the one of
\* the rate is even, so that a quarter of its square is a whole number.
MaxStddev == 1

SystemParameters ==
  [angular_acceleration_stddev_ : 0..MaxStddev, velocity_stddev_ : 0..MaxStddev,
   acceleration_stddev_ : 0..MaxStddev, rate_stddev_ : {0, 2 * MaxStddev}]

\* The states getSystemNoise is called with: every block, or all but one.
NoiseBlockSets == {AllBlocks} \cup {AllBlocks \ {b} : b \in AllBlocks}

StatusMasks == SUBSET {STATE_POSITION_XY, STATE_VELOCITY_Z}

(***************************************************************************)
(* The state after construction.                                           *)
(***************************************************************************)
Init ==
  /\ state = InitialState
  /\ covariance = PriorCovariance
  /\ status_ = {}
  /\ measurement_status_ = {}
  /\ global_reference_ \in
       {[latitude |-> NaN, longitude |-> NaN, altitude |-> NaN, heading |-> h] :
          h \in HeadingSet}
  /\ gps = [reference_ |-> NULL, y_ |-> <<0, 0, 0, 0>>, last_ |-> <<>>,
            timer_ |-> 0, status_flags_ |-> {}]
  /\ height = [auto_elevation_ |-> TRUE, elevation_initialized_ |-> FALSE, elevation_ |-> 0,
               timer_ |-> 0, status_flags_ |-> {}]
  /\ x_dot_ = ZeroVector
  /\ A = ZeroMatrix
  /\ Q = ZeroVector
  /\ update_ = NoUpdate
  /\ parameters_ = NoTracker
  /\ objects = NoObjects
  /\ model_mutex = NULL
  /\ callbacks = [t \in Threads |-> Idle]
  /\ controller = NoController
  /\ last = Op("init")

(***************************************************************************)
(* predict: PoseEstimation::update(dt) with dt = 1.                        *)
(***************************************************************************)
predict(accelerations) ==
  \E acceleration \in accelerations :
    LET gps1 == Measurement_increaseTimer(gps)
        height1 == Measurement_increaseTimer(height)
        contributed == gps1.status_flags_ \cup height1.status_flags_
        ms == updateStatus(measurement_status_, contributed, StatusFlags \ contributed)
        flags == getStatusFlags(ms)
        st == updateStatus(status_, flags, StatusFlags \ flags)
        x_dot == getDerivative(ZeroVector, state, AllBlocks, st, acceleration, gravity_)
        x1 == [c \in StateComponents |-> Plus(state[c], x_dot[c])]
    IN  /\ InBounds(x1)
        /\ state' = x1
        /\ covariance' = PredictCovariance(covariance, st)
        /\ status_' = st
        /\ measurement_status_' = ms
        /\ gps' = gps1
        /\ height' = height1
        /\ last' = [Op("predict") EXCEPT !.update = <<acceleration>>]
        /\ UNCHANGED <<global_reference_, x_dot_, A, Q, update_, trackerVars, controllerVars>>

(***************************************************************************)
(* correct: Measurement::update for the GPS and for the Height.  The hook  *)
(* runs first; what it did to the measurement and to the global reference  *)
(* stays also when the correction is not made.                             *)
(***************************************************************************)
correctGPS(updates) ==
  \E update \in updates :
    LET b == GPS_beforeUpdate(gps, global_reference_, state, update)
        g == GPS_getVector(b.gps, b.ref, update)
        k == Innovate(state, covariance, GPSModel_dfGet, g.y_,
                      GPSModel_ExpectedValueGet(state))
    IN  /\ global_reference_' = b.ref
        /\ IF ~b.ret
           THEN /\ gps' = b.gps
                /\ UNCHANGED <<state, covariance>>
                /\ last' = [Op("correctGPS") EXCEPT !.update = <<update>>, !.ret = FALSE,
                                                    !.setPosition = b.setPosition]
           ELSE /\ InBounds(k.state)
                /\ state' = k.state
                /\ covariance' = k.covariance
                /\ gps' = IF k.ret THEN Measurement_updated(g, GPSModel_getStatusFlags)
                          ELSE g
                /\ last' = [Op("correctGPS") EXCEPT !.update = <<update>>, !.ret = k.ret,
                                                    !.setPosition = b.setPosition]
        /\ UNCHANGED <<status_, measurement_status_, height,
                       x_dot_, A, Q, update_, trackerVars, controllerVars>>

correctHeight(updates) ==
  \E update \in updates :
    LET b == Height_beforeUpdate(height, global_reference_, state, update)
        k == Innovate(state, covariance, HeightModel_dfGet, update,
                      HeightModel_ExpectedValueGet(state, b.height))
    IN  /\ global_reference_' = b.ref
        /\ IF ~b.ret
           THEN /\ height' = b.height
                /\ UNCHANGED <<state, covariance>>
                /\ last' = [Op("correctHeight") EXCEPT !.update = update, !.ret = FALSE,
                                                       !.setAltitude = b.setAltitude]
           ELSE /\ InBounds(k.state)
                /\ state' = k.state
                /\ covariance' = k.covariance
                /\ height' = IF k.ret
                             THEN Measurement_updated(b.height, HeightModel_getStatusFlags)
                             ELSE b.height
                /\ last' = [Op("correctHeight") EXCEPT !.update = update, !.ret = k.ret,
                                                       !.setAltitude = b.setAltitude]
        /\ UNCHANGED <<status_, measurement_status_, gps,
                       x_dot_, A, Q, update_, trackerVars, controllerVars>>

(***************************************************************************)
(* correct for the Magnetic measurement (magnetic.h).  The header declares *)
(* the model and the hook; their bodies are elsewhere.  The hook is any    *)
(* hook a measurement may have: it returns true or false, and it may give  *)
(* the global reference a heading.  The field is measured in the body      *)
(* frame, with a reference field of magnitude 1 that points north; the     *)
(* correction turns the vehicle about the vertical until the expected      *)
(* field meets the measured one.  The timer and the status flags of the    *)
(* measurement are not part of the model.                                  *)
(***************************************************************************)
\* The reference field <<1, 0, 0>> rotated into the body frame.
MagneticModel_ExpectedValueGet(x_) ==
  LET qw == x_.QUATERNION_W
      qx == x_.QUATERNION_X
      qy == x_.QUATERNION_Y
      qz == x_.QUATERNION_Z
  IN  <<qw * qw + qx * qx - qy * qy - qz * qz,
        2 * qx * qy - 2 * qw * qz,
        2 * qx * qz + 2 * qw * qy>>

\* The orientation turned half a turn about the vertical: q * (0, 0, 0, 1).
YawHalfTurn(st) ==
  [st EXCEPT !.QUATERNION_W = 0 - st.QUATERNION_Z, !.QUATERNION_X = st.QUATERNION_Y,
             !.QUATERNION_Y = 0 - st.QUATERNION_X, !.QUATERNION_Z = st.QUATERNION_W]

\* The corrected state: as it was when the measured field is the expected
\* one, turned when the measured field is the opposite one.
Magnetic_Innovate(st, y, yhat) == IF y = yhat THEN st ELSE YawHalfTurn(st)

\* The outcomes of the hook: either return value, with the heading of the
\* global reference left alone or set.
Magnetic_beforeUpdate(ref) ==
  {[ret |-> r, ref |-> [ref EXCEPT !.heading = h]] : r \in BOOLEAN, h \in HeadingSet}

\* The field a magnetometer measures heading north and heading south.
MagneticUpdates == {<<1, 0, 0>>, <<0 - 1, 0, 0>>}

\* A correct that goes on whatever the hook returned.
correctMagnetic_unconditional(updates) ==
  \E update \in updates, hook \in Magnetic_beforeUpdate(global_reference_) :
    LET k == Magnetic_Innovate(state, update, MagneticModel_ExpectedValueGet(state))
    IN  /\ global_reference_' = hook.ref
        /\ state' = k
        /\ UNCHANGED covariance
        /\ last' = [Op("correctMagnetic") EXCEPT
                      !.update = <<update, global_reference_.heading, hook.ref.heading>>,
                      !.ret = hook.ret]
        /\ UNCHANGED <<status_, measurement_status_, gps, height, x_dot_, A, Q, update_, trackerVars, controllerVars>>

correctMagnetic(updates) ==
  \E update \in updates, hook \in Magnetic_beforeUpdate(global_reference_) :
    LET k == Magnetic_Innovate(state, update, MagneticModel_ExpectedValueGet(state))
    IN  /\ global_reference_' = hook.ref
        /\ IF ~hook.ret
           THEN UNCHANGED <<state, covariance>>
           ELSE /\ state' = k
                /\ UNCHANGED covariance
        /\ last' = [Op("correctMagnetic") EXCEPT
                      !.update = <<update, global_reference_.heading, hook.ref.heading>>,
                      !.ret = hook.ret]
        /\ UNCHANGED <<status_, measurement_status_, gps, height, x_dot_, A, Q, update_, trackerVars, controllerVars>>

(***************************************************************************)
(* reset: the state and covariance return to their initial values and      *)
(* every measurement is reset; the global reference stays.                 *)
(***************************************************************************)
reset ==
  /\ state' = InitialState
  /\ covariance' = PriorCovariance
  /\ gps' = [GPS_onReset(gps) EXCEPT !.timer_ = 0, !.status_flags_ = {}]
  /\ height' = [Height_onReset(height) EXCEPT !.timer_ = 0, !.status_flags_ = {}]
  /\ last' = Op("reset")
  /\ UNCHANGED <<status_, measurement_status_, global_reference_,
                 x_dot_, A, Q, update_, trackerVars, controllerVars>>

(***************************************************************************)
(* The methods of the measurements called on their own.                    *)
(***************************************************************************)
\* An onReset that forgets the position of the global reference as well.
callGPSonReset_clearingReference ==
  /\ gps' = GPS_onReset(gps)
  /\ global_reference_' = setPosition(global_reference_, NaN, NaN)
  /\ last' = Op("GPS::onReset")
  /\ UNCHANGED <<state, covariance, status_, measurement_status_, height,
                 x_dot_, A, Q, update_, trackerVars, controllerVars>>

callGPSonReset ==
  /\ gps' = GPS_onReset(gps)
  /\ last' = Op("GPS::onReset")
  /\ UNCHANGED <<state, covariance, status_, measurement_status_, global_reference_, height,
                 x_dot_, A, Q, update_, trackerVars, controllerVars>>

callGPSgetVector ==
  \E update \in GPSUpdates :
    /\ gps' = GPS_getVector(gps, global_reference_, update)
    /\ last' = [Op("GPS::getVector") EXCEPT !.update = <<update>>]
    /\ UNCHANGED <<state, covariance, status_, measurement_status_, global_reference_, height,
                   x_dot_, A, Q, update_, trackerVars, controllerVars>>

callGPSbeforeUpdate ==
  \E update \in GPSUpdates :
    LET b == GPS_beforeUpdate(gps, global_reference_, state, update)
    IN  /\ gps' = b.gps
        /\ global_reference_' = b.ref
        /\ last' = [Op("GPS::beforeUpdate") EXCEPT !.update = <<update>>, !.ret = b.ret,
                                                   !.setPosition = b.setPosition]
        /\ UNCHANGED <<state, covariance, status_, measurement_status_, height,
                       x_dot_, A, Q, update_, trackerVars, controllerVars>>

callHeightOnReset ==
  /\ height' = Height_onReset(height)
  /\ last' = Op("Height::onReset")
  /\ UNCHANGED <<state, covariance, status_, measurement_status_, global_reference_, gps,
                 x_dot_, A, Q, update_, trackerVars, controllerVars>>

callHeightBeforeUpdate(updates) ==
  \E update \in updates :
    LET b == Height_beforeUpdate(height, global_reference_, state, update)
    IN  /\ height' = b.height
        /\ global_reference_' = b.ref
        /\ last' = [Op("Height::beforeUpdate") EXCEPT !.update = update, !.ret = b.ret,
                                                      !.setAltitude = b.setAltitude]
        /\ UNCHANGED <<state, covariance, status_, measurement_status_, gps,
                       x_dot_, A, Q, update_, trackerVars, controllerVars>>

\* The auto_elevation parameter given a value through the parameter list the
\* constructor registers it in.
setAutoElevation ==
  \E value \in BOOLEAN :
    /\ height' = [height EXCEPT !.auto_elevation_ = value]
    /\ last' = [Op("auto_elevation") EXCEPT !.update = <<value>>]
    /\ UNCHANGED <<state, covariance, status_, measurement_status_, global_reference_, gps,
                   x_dot_, A, Q, update_, trackerVars, controllerVars>>

(***************************************************************************)
(* The status mutators pose_estimation.h declares.                         *)
(***************************************************************************)
\* An updateSystemStatus that writes the measurement status as well.
updateSystemStatus_both ==
  \E set \in StatusMasks, clear \in StatusMasks :
    /\ status_' = updateStatus(status_, set, clear)
    /\ measurement_status_' = updateStatus(measurement_status_, set, clear)
    /\ last' = [Op("updateSystemStatus") EXCEPT !.update = <<set, clear>>]
    /\ UNCHANGED <<state, covariance, global_reference_, gps, height,
                   x_dot_, A, Q, update_, trackerVars, controllerVars>>

updateSystemStatus ==
  \E set \in StatusMasks, clear \in StatusMasks :
    /\ status_' = updateStatus(status_, set, clear)
    /\ last' = [Op("updateSystemStatus") EXCEPT !.update = <<set, clear>>]
    /\ UNCHANGED <<state, covariance, measurement_status_, global_reference_, gps, height,
                   x_dot_, A, Q, update_, trackerVars, controllerVars>>

updateMeasurementStatus ==
  \E set \in StatusMasks, clear \in StatusMasks :
    /\ measurement_status_' = updateStatus(measurement_status_, set, clear)
    /\ last' = [Op("updateMeasurementStatus") EXCEPT !.update = <<set, clear>>]
    /\ UNCHANGED <<state, covariance, status_, global_reference_, gps, height,
                   x_dot_, A, Q, update_, trackerVars, controllerVars>>

setSystemStatus ==
  \E new_status \in StatusMasks :
    /\ status_' = new_status
    /\ last' = [Op("setSystemStatus") EXCEPT !.update = <<new_status>>]
    /\ UNCHANGED <<state, covariance, measurement_status_, global_reference_, gps, height,
                   x_dot_, A, Q, update_, trackerVars, controllerVars>>

setMeasurementStatus ==
  \E new_status \in StatusMasks :
    /\ measurement_status_' = new_status
    /\ last' = [Op("setMeasurementStatus") EXCEPT !.update = <<new_status>>]
    /\ UNCHANGED <<state, covariance, status_, global_reference_, gps, height,
                   x_dot_, A, Q, update_, trackerVars, controllerVars>>

(***************************************************************************)
(* The methods of the system model called on their own, each with a state  *)
(* the caller chose.  They read the state and write the vector or matrix   *)
(* they are handed; the estimator stays as it is.                          *)
(***************************************************************************)
callGetStatusFlags ==
  \E measurement_status \in SUBSET StatusFlags :
    /\ last' = [Op("getStatusFlags") EXCEPT !.update = <<measurement_status>>,
                                           !.ret = getStatusFlags(measurement_status)]
    /\ UNCHANGED <<state, covariance, status_, measurement_status_, global_reference_,
                   gps, height, x_dot_, A, Q, update_, trackerVars, controllerVars>>

callGetDerivative ==
  \E st \in SystemStates, blocks \in BlockSets, status \in SystemStatuses,
     acceleration \in Accelerations :
    /\ x_dot_' = getDerivative(x_dot_, st, blocks, status, acceleration, gravity_)
    /\ last' = [Op("getDerivative") EXCEPT
                  !.update = <<st, blocks, status, acceleration>>]
    /\ UNCHANGED <<state, covariance, status_, measurement_status_, global_reference_,
                   gps, height, A, Q, update_, trackerVars, controllerVars>>

callGetStateJacobian ==
  \E st \in {LevelAtRest, RolledTurning}, blocks \in {AllBlocks, AllBlocks \ {VELOCITY}},
     status \in SystemStatuses, acceleration \in {Push} :
    /\ A' = getStateJacobian(A, st, blocks, status, acceleration)
    /\ last' = [Op("getStateJacobian") EXCEPT
                  !.update = <<st, blocks, status, acceleration>>, !.ret = A]
    /\ UNCHANGED <<state, covariance, status_, measurement_status_, global_reference_,
                   gps, height, x_dot_, Q, update_, trackerVars, controllerVars>>

callGetSystemNoise ==
  \E st \in {LevelAtRest, RolledTurning}, blocks \in NoiseBlockSets,
     parameters \in SystemParameters, init \in BOOLEAN :
    /\ Q' = getSystemNoise(Q, st, blocks, parameters, init)
    /\ last' = [Op("getSystemNoise") EXCEPT !.update = <<st, blocks, parameters, init>>]
    /\ UNCHANGED <<state, covariance, status_, measurement_status_, global_reference_,
                   gps, height, x_dot_, A, update_, trackerVars, controllerVars>>

\* getInputJacobian: the body is one throw statement; B is not written.
callGetInputJacobian ==
  \E st \in SystemStates, init \in BOOLEAN :
    /\ last' = [Op("getInputJacobian") EXCEPT !.update = <<st, init>>, !.thrown = TRUE]
    /\ UNCHANGED <<state, covariance, status_, measurement_status_, global_reference_,
                   gps, height, x_dot_, A, Q, update_, trackerVars, controllerVars>>

(***************************************************************************)
(* The operations of an Update_ envelope.                                  *)
(***************************************************************************)
UpdateOp(name, arguments) ==
  [Op(name) EXCEPT !.update = arguments, !.ret = update_]

newUpdate ==
  \E y \in Vectors, R \in Covariances :
    /\ update_ = NoUpdate
    /\ update_' = Update_default(y, R)
    /\ last' = [Op("Update_") EXCEPT !.update = <<>>]
    /\ UNCHANGED <<state, covariance, status_, measurement_status_, global_reference_,
                 gps, height, x_dot_, A, Q, trackerVars, controllerVars>>

newUpdateVector ==
  \E y0 \in Vectors, R \in Covariances, y \in Vectors :
    /\ update_ = NoUpdate
    /\ update_' = Update_setValue(Update_default(y0, R), y)
    /\ last' = [Op("Update_") EXCEPT !.update = <<y>>]
    /\ UNCHANGED <<state, covariance, status_, measurement_status_, global_reference_,
                 gps, height, x_dot_, A, Q, trackerVars, controllerVars>>

newUpdateDouble ==
  \E y0 \in Vectors, R \in Covariances, y \in Samples :
    /\ update_ = NoUpdate
    /\ update_' = Update_setValueDouble(Update_default(y0, R), y)
    /\ last' = [Op("Update_") EXCEPT !.update = <<y>>]
    /\ UNCHANGED <<state, covariance, status_, measurement_status_, global_reference_,
                 gps, height, x_dot_, A, Q, trackerVars, controllerVars>>

deleteUpdate ==
  /\ update_ # NoUpdate
  /\ update_' = NoUpdate
  /\ last' = UpdateOp("~Update_", <<>>)
  /\ UNCHANGED <<state, covariance, status_, measurement_status_, global_reference_,
                 gps, height, x_dot_, A, Q, trackerVars, controllerVars>>

setValue ==
  \E y \in Vectors :
    /\ update_ # NoUpdate
    /\ update_' = Update_setValue(update_, y)
    /\ last' = UpdateOp("setValue", <<y>>)
    /\ UNCHANGED <<state, covariance, status_, measurement_status_, global_reference_,
                 gps, height, x_dot_, A, Q, trackerVars, controllerVars>>

setValueDouble ==
  \E y \in Samples :
    /\ update_ # NoUpdate
    /\ update_' = Update_setValueDouble(update_, y)
    /\ last' = UpdateOp("setValue(double)", <<y>>)
    /\ UNCHANGED <<state, covariance, status_, measurement_status_, global_reference_,
                 gps, height, x_dot_, A, Q, trackerVars, controllerVars>>

setCovariance ==
  \E R \in Covariances :
    /\ update_ # NoUpdate
    /\ update_' = Update_setCovariance(update_, R)
    /\ last' = UpdateOp("setCovariance", <<R>>)
    /\ UNCHANGED <<state, covariance, status_, measurement_status_, global_reference_,
                 gps, height, x_dot_, A, Q, trackerVars, controllerVars>>

\* operator=(Vector const&) and operator=(double): setValue, and y_ returned.
assign ==
  \E y \in Vectors :
    /\ update_ # NoUpdate
    /\ update_' = Update_setValue(update_, y)
    /\ last' = UpdateOp("operator=", <<y>>)
    /\ UNCHANGED <<state, covariance, status_, measurement_status_, global_reference_,
                 gps, height, x_dot_, A, Q, trackerVars, controllerVars>>

assignDouble ==
  \E y \in Samples :
    /\ update_ # NoUpdate
    /\ update_' = Update_setValueDouble(update_, y)
    /\ last' = UpdateOp("operator=(double)", <<y>>)
    /\ UNCHANGED <<state, covariance, status_, measurement_status_, global_reference_,
                 gps, height, x_dot_, A, Q, trackerVars, controllerVars>>

\* getVector, getCovariance and hasCovariance: const members.
getVector ==
  /\ update_ # NoUpdate
  /\ last' = UpdateOp("getVector", <<update_.y_>>)
  /\ UNCHANGED update_
  /\ UNCHANGED <<state, covariance, status_, measurement_status_, global_reference_,
                 gps, height, x_dot_, A, Q, trackerVars, controllerVars>>

getCovariance ==
  /\ update_ # NoUpdate
  /\ last' = UpdateOp("getCovariance", <<update_.R_>>)
  /\ UNCHANGED update_
  /\ UNCHANGED <<state, covariance, status_, measurement_status_, global_reference_,
                 gps, height, x_dot_, A, Q, trackerVars, controllerVars>>

hasCovariance ==
  /\ update_ # NoUpdate
  /\ last' = UpdateOp("hasCovariance", <<update_.has_covariance_>>)
  /\ UNCHANGED update_
  /\ UNCHANGED <<state, covariance, status_, measurement_status_, global_reference_,
                 gps, height, x_dot_, A, Q, trackerVars, controllerVars>>

(***************************************************************************)
(* ObjectTracker callbacks.  A callback is a sequence of steps of one      *)
(* thread; the step names are the positions in object_tracker.cpp.  Each   *)
(* step records in last the thread, the step, whether it reads or writes   *)
(* the object model or an object of it, whether the thread holds the mutex *)
(* as the step begins, and whether the callback returns.                   *)
(***************************************************************************)
Step(cb, t, step, access, returns) ==
  [Op(cb) EXCEPT !.update = [thread |-> t, step |-> step, access |-> access,
                             locked |-> model_mutex = t, returns |-> returns]]

At(t, cb, pc) == callbacks[t].cb = cb /\ callbacks[t].pc = pc

Goto(t, pc) == callbacks' = [callbacks EXCEPT ![t].pc = pc]

Return(t) == callbacks' = [callbacks EXCEPT ![t] = Idle]

\* model.lock(): blocks while another thread holds the mutex.
lock(cb, t, next) ==
  /\ At(t, cb, "lock")
  /\ model_mutex = NULL
  /\ model_mutex' = t
  /\ Goto(t, next)
  /\ last' = Step(cb, t, "lock", FALSE, FALSE)
  /\ UNCHANGED <<parameters_, objects, estimatorVars, controllerVars>>

\* publishModel() at the end of a callback, lines 650-668: reads the model
\* without the lock (the lock and unlock there are commented out).
publishModel(cb, t) ==
  /\ At(t, cb, "publishModel")
  /\ Return(t)
  /\ last' = Step(cb, t, "publishModel", TRUE, TRUE)
  /\ UNCHANGED <<parameters_, objects, model_mutex, estimatorVars, controllerVars>>

TrackerParameters ==
  [constructed : {TRUE}, pending_support : {0, 1}, pending_time : {0, 1},
   active_support : {0, 2}, active_time : {0, 1}, ageing_threshold : {1},
   verification : BOOLEAN]

\* ObjectTracker::ObjectTracker, lines 16-31: the parameters are read once.
ObjectTracker(parameterSet) ==
  /\ ~parameters_.constructed
  /\ \E parameters \in parameterSet : parameters_' = parameters
  /\ last' = Op("ObjectTracker")
  /\ UNCHANGED <<objects, model_mutex, callbacks, estimatorVars, controllerVars>>

\* posePerceptCb up to line 329: the percept is dropped by a verification
\* service, a failed transform, the height filter or a zero support.
posePercept_begin(t, percepts) ==
  /\ callbacks[t].cb = ""
  /\ parameters_.constructed
  /\ \E percept \in percepts, dropped \in BOOLEAN :
       IF dropped \/ percept.support = 0
       THEN /\ Return(t)
            /\ last' = Step("posePerceptCb", t, "begin", FALSE, TRUE)
       ELSE /\ callbacks' = [callbacks EXCEPT ![t] =
                 [Idle EXCEPT !.cb = "posePerceptCb", !.pc = "lock", !.request = percept]]
            /\ last' = Step("posePerceptCb", t, "begin", FALSE, FALSE)
  /\ UNCHANGED <<parameters_, objects, model_mutex, estimatorVars, controllerVars>>

\* Lines 335-350: the object the percept is associated with, or NULL.
Correspondence(percept) ==
  IF percept.object_id = ""
  THEN {NULL} \cup DOMAIN objects
  ELSE IF percept.object_id \in DOMAIN objects THEN {percept.object_id} ELSE {NULL}

\* A search that returns on an object in a fixed state and keeps the mutex.
posePercept_find_keepingLock(t) ==
  /\ At(t, "posePerceptCb", "find")
  /\ \E object \in Correspondence(callbacks[t].request) :
       IF object # NULL /\ objects[object].state < 0
       THEN /\ Return(t)
            /\ last' = Step("posePerceptCb", t, "find", TRUE, TRUE)
       ELSE /\ callbacks' = [callbacks EXCEPT ![t].pc = "update", ![t].object = object]
            /\ last' = Step("posePerceptCb", t, "find", TRUE, FALSE)
  /\ UNCHANGED <<model_mutex, parameters_, objects, estimatorVars, controllerVars>>

\* Lines 335-356: the search, and the return on an object in a fixed state.
posePercept_find(t) ==
  /\ At(t, "posePerceptCb", "find")
  /\ \E object \in Correspondence(callbacks[t].request) :
       IF object # NULL /\ objects[object].state < 0
       THEN /\ model_mutex' = NULL
            /\ Return(t)
            /\ last' = Step("posePerceptCb", t, "find", TRUE, TRUE)
       ELSE /\ UNCHANGED model_mutex
            /\ callbacks' = [callbacks EXCEPT ![t].pc = "update", ![t].object = object]
            /\ last' = Step("posePerceptCb", t, "find", TRUE, FALSE)
  /\ UNCHANGED <<parameters_, objects, estimatorVars, controllerVars>>

\* Lines 358-403: create the object or add the percept to it, promote it,
\* and stamp it.  A new object takes the id of the percept, or a fresh one.
posePercept_update(t) ==
  /\ At(t, "posePerceptCb", "update")
  /\ LET percept == callbacks[t].request
         found == callbacks[t].object
     IN  \E id \in IF found # NULL THEN {found}
                   ELSE IF percept.object_id # "" THEN {percept.object_id}
                   ELSE ObjectIds \ DOMAIN objects :
           LET object == IF found = NULL
                         THEN [NewObject EXCEPT !.support = percept.support]
                         ELSE IF id \in DOMAIN objects
                         THEN addSupport(objects[id], percept.support)
                         ELSE [NewObject EXCEPT !.support = percept.support]
               updated == [UpdateObjectState(object, percept.stamp, parameters_)
                             EXCEPT !.stamp = percept.stamp]
           IN  /\ objects' = [i \in DOMAIN objects \cup {id} |->
                                IF i = id THEN updated ELSE objects[i]]
               /\ callbacks' = [callbacks EXCEPT ![t].pc = "unlock", ![t].object = id]
               /\ last' = [Step("posePerceptCb", t, "update", TRUE, FALSE)
                             EXCEPT !.ret = [before |-> IF found = NULL THEN NewObject
                                                        ELSE objects[found],
                                             after |-> updated,
                                             stamp |-> percept.stamp]]
  /\ UNCHANGED <<parameters_, model_mutex, estimatorVars, controllerVars>>

\* Line 406.
posePercept_unlock(t) ==
  /\ At(t, "posePerceptCb", "unlock")
  /\ model_mutex' = NULL
  /\ Goto(t, "verify")
  /\ last' = Step("posePerceptCb", t, "unlock", FALSE, FALSE)
  /\ UNCHANGED <<parameters_, objects, estimatorVars, controllerVars>>

\* Lines 409-442: the verification services of the object, after the unlock;
\* a DISCARD sets the state, a CONFIRM adds a support of 100.
posePercept_verify(t) ==
  /\ At(t, "posePerceptCb", "verify")
  /\ LET id == callbacks[t].object
     IN  IF parameters_.verification /\ id \in DOMAIN objects
         THEN \E response \in {"UNKNOWN", "DISCARD", "CONFIRM"} :
                /\ objects' =
                     CASE response = "DISCARD" ->
                            [objects EXCEPT ![id].state = DISCARDED]
                       [] response = "CONFIRM" ->
                            [objects EXCEPT ![id] = addSupport(objects[id], 100)]
                       [] OTHER -> objects
                /\ last' = Step("posePerceptCb", t, "verify", TRUE, FALSE)
         ELSE /\ UNCHANGED objects
              /\ last' = Step("posePerceptCb", t, "verify", parameters_.verification, FALSE)
  /\ Goto(t, "publishModel")
  /\ UNCHANGED <<parameters_, model_mutex, estimatorVars, controllerVars>>

posePerceptCb(T, percepts) ==
  \E t \in T :
    \/ posePercept_begin(t, percepts)
    \/ lock("posePerceptCb", t, "find")
    \/ posePercept_find(t)
    \/ posePercept_update(t)
    \/ posePercept_unlock(t)
    \/ posePercept_verify(t)
    \/ publishModel("posePerceptCb", t)

MaxAgeing == 2

Ageings == 0..MaxAgeing

\* objectAgeingCb, line 456: the message carries the amount.
objectAgeing_begin(t, ageings) ==
  /\ callbacks[t].cb = ""
  /\ parameters_.constructed
  /\ \E ageing \in ageings :
       callbacks' = [callbacks EXCEPT ![t] =
         [Idle EXCEPT !.cb = "objectAgeingCb", !.pc = "lock", !.request.support = ageing]]
  /\ last' = Step("objectAgeingCb", t, "begin", FALSE, FALSE)
  /\ UNCHANGED <<parameters_, objects, model_mutex, estimatorVars, controllerVars>>

\* Lines 462-478: the pass over a copy of the list of the model.
objectAgeing_loop(t) ==
  /\ At(t, "objectAgeingCb", "loop")
  /\ objects' = AgeingLoop(ListOf(DOMAIN objects), 1, objects, callbacks[t].request.support,
                           parameters_.ageing_threshold)
  /\ Goto(t, "unlock")
  /\ last' = [Step("objectAgeingCb", t, "loop", TRUE, FALSE) EXCEPT !.ret = objects]
  /\ UNCHANGED <<parameters_, model_mutex, estimatorVars, controllerVars>>

\* Line 481.
objectAgeing_unlock(t) ==
  /\ At(t, "objectAgeingCb", "unlock")
  /\ model_mutex' = NULL
  /\ Goto(t, "publishModel")
  /\ last' = Step("objectAgeingCb", t, "unlock", FALSE, FALSE)
  /\ UNCHANGED <<parameters_, objects, estimatorVars, controllerVars>>

objectAgeingCb(T, ageings) ==
  \E t \in T :
    \/ objectAgeing_begin(t, ageings)
    \/ lock("objectAgeingCb", t, "loop")
    \/ objectAgeing_loop(t)
    \/ objectAgeing_unlock(t)
    \/ publishModel("objectAgeingCb", t)

\* setObjectStateCb, line 485.
setObjectState_begin(t, requests) ==
  /\ callbacks[t].cb = ""
  /\ parameters_.constructed
  /\ \E request \in requests :
       callbacks' = [callbacks EXCEPT ![t] =
         [Idle EXCEPT !.cb = "setObjectStateCb", !.pc = "lock", !.request = request]]
  /\ last' = Step("setObjectStateCb", t, "begin", FALSE, FALSE)
  /\ UNCHANGED <<parameters_, objects, model_mutex, estimatorVars, controllerVars>>

\* Lines 490-497: an unknown object unlocks and returns false; a known one
\* is set, published and the mutex released.
setObjectState_set(t) ==
  /\ At(t, "setObjectStateCb", "set")
  /\ model_mutex' = NULL
  /\ LET request == callbacks[t].request
     IN  IF request.object_id \in DOMAIN objects
         THEN /\ objects' = [objects EXCEPT ![request.object_id].state = request.state]
              /\ Goto(t, "publishModel")
              /\ last' = Step("setObjectStateCb", t, "set", TRUE, FALSE)
         ELSE /\ UNCHANGED objects
              /\ Return(t)
              /\ last' = Step("setObjectStateCb", t, "set", TRUE, TRUE)
  /\ UNCHANGED <<parameters_, estimatorVars, controllerVars>>

setObjectStateCb(T, requests) ==
  \E t \in T :
    \/ setObjectState_begin(t, requests)
    \/ lock("setObjectStateCb", t, "set")
    \/ setObjectState_set(t)
    \/ publishModel("setObjectStateCb", t)

\* setObjectNameCb, line 502.
setObjectName_begin(t) ==
  /\ callbacks[t].cb = ""
  /\ parameters_.constructed
  /\ \E id \in ObjectIds :
       callbacks' = [callbacks EXCEPT ![t] =
         [Idle EXCEPT !.cb = "setObjectNameCb", !.pc = "lock", !.request.object_id = id]]
  /\ last' = Step("setObjectNameCb", t, "begin", FALSE, FALSE)
  /\ UNCHANGED <<parameters_, objects, model_mutex, estimatorVars, controllerVars>>

\* Lines 507-514: as setObjectStateCb, for the name, which the model of the
\* object does not hold.
setObjectName_set(t) ==
  /\ At(t, "setObjectNameCb", "set")
  /\ model_mutex' = NULL
  /\ IF callbacks[t].request.object_id \in DOMAIN objects
     THEN /\ Goto(t, "publishModel")
          /\ last' = Step("setObjectNameCb", t, "set", TRUE, FALSE)
     ELSE /\ Return(t)
          /\ last' = Step("setObjectNameCb", t, "set", TRUE, TRUE)
  /\ UNCHANGED <<parameters_, objects, estimatorVars, controllerVars>>

setObjectNameCb(T) ==
  \E t \in T :
    \/ setObjectName_begin(t)
    \/ lock("setObjectNameCb", t, "set")
    \/ setObjectName_set(t)
    \/ publishModel("setObjectNameCb", t)

\* addObjectCb, lines 519-562: the lookup of the object at line 526 is made
\* before the lock; a failed projection or transform returns false.
addObject_begin(t, requests) ==
  /\ callbacks[t].cb = ""
  /\ parameters_.constructed
  /\ \E request \in requests, failed \in BOOLEAN :
       LET known == request.object_id # "" /\ request.object_id \in DOMAIN objects
       IN  IF failed
           THEN /\ Return(t)
                /\ last' = Step("addObjectCb", t, "begin", request.object_id # "", TRUE)
           ELSE /\ callbacks' = [callbacks EXCEPT ![t] =
                     [cb |-> "addObjectCb", pc |-> "lock", request |-> request,
                      object |-> IF known THEN request.object_id ELSE NULL,
                      newObject |-> ~known]]
                /\ last' = Step("addObjectCb", t, "begin", request.object_id # "", FALSE)
  /\ UNCHANGED <<parameters_, objects, model_mutex, estimatorVars, controllerVars>>

\* Lines 566-575: the object is filled in, added when it is new, published
\* and the mutex released.  A new object takes the id of the request, or a
\* fresh one.
addObject_add(t) ==
  /\ At(t, "addObjectCb", "add")
  /\ model_mutex' = NULL
  /\ LET request == callbacks[t].request
         object == [state |-> request.state, support |-> request.support,
                    stamp |-> request.stamp]
     IN  \E id \in IF callbacks[t].object # NULL THEN {callbacks[t].object}
                   ELSE IF request.object_id # "" THEN {request.object_id}
                   ELSE ObjectIds \ DOMAIN objects :
           objects' = IF callbacks[t].newObject \/ id \in DOMAIN objects
                      THEN [i \in DOMAIN objects \cup {id} |->
                              IF i = id THEN object ELSE objects[i]]
                      ELSE objects
  /\ Goto(t, "publishModel")
  /\ last' = Step("addObjectCb", t, "add", TRUE, FALSE)
  /\ UNCHANGED <<parameters_, estimatorVars, controllerVars>>

addObjectCb(T, requests) ==
  \E t \in T :
    \/ addObject_begin(t, requests)
    \/ lock("addObjectCb", t, "add")
    \/ addObject_add(t)
    \/ publishModel("addObjectCb", t)

\* getObjectModelCb, lines 581-584: the model is read without the lock.
getObjectModelCb(T) ==
  \E t \in T :
    /\ callbacks[t].cb = ""
    /\ parameters_.constructed
    /\ last' = Step("getObjectModelCb", t, "getObjectModelMessage", TRUE, TRUE)
    /\ UNCHANGED <<parameters_, objects, model_mutex, callbacks, estimatorVars,
                   controllerVars>>

(***************************************************************************)
(* GazeboQuadrotorSimpleController: load, update and reset.                *)
(***************************************************************************)
MaxCommand == 2

MaxIntegral == 2

\* The parameters of a PID controller in the configuration.
PIDParameters ==
  [gain_p : {1}, gain_d : {1}, gain_i : {0, 1}, time_constant : {0}, limit : {0 - 1, 1}]

\* LoadChild, lines 83-118: the PID controllers and maxForce are read from
\* the configuration; the four nodes of the configuration hold the same
\* parameters in the model.
LoadChild ==
  /\ ~controller.loaded
  /\ \E parameters \in PIDParameters, max_force \in {0 - 1, 3} :
       controller' =
         [controller EXCEPT
            !.loaded = TRUE,
            !.max_force_ = max_force,
            !.controllers_ =
              [c \in Controllers |->
                 [controller.controllers_[c] EXCEPT
                    !.gain_p = parameters.gain_p, !.gain_d = parameters.gain_d,
                    !.gain_i = parameters.gain_i,
                    !.time_constant = parameters.time_constant,
                    !.limit = parameters.limit]]]
  /\ last' = Op("LoadChild")
  /\ UNCHANGED <<estimatorVars, trackerVars>>

\* The velocity commands: the message queue holds one, or none.
Twist(x, z, yaw) ==
  [linear |-> [x |-> x, y |-> 0, z |-> z], angular |-> [x |-> 0, y |-> 0, z |-> yaw]]

Commands ==
  {Twist(1, MaxCommand, 1), Twist(0, 0 - MaxCommand, 0), Twist(0, NaN, 0)}

\* The states of the body: its velocity in horizontal body coordinates and
\* the length of gravity times the load factor, with the body level (1) or
\* tilted (2).  Acceleration, Euler angles and angular velocity are zero.
BodyStates == [velocity : [x : {0}, y : {0}, z : {0 - 1, 1}], load : {1, 2}]

\* The length of gravity in body coordinates, in the unit of the model.
Gravity == 1

\* UpdateChild, lines 225-281, with VelocityCallback (186-189) for the
\* command the queue holds.
UpdateChild ==
  /\ controller.loaded
  /\ \E command \in Commands \cup {controller.velocity_command_},
        body \in BodyStates, dt \in {0, 1} :
       \E velocity_x \in {PIDController_update(controller.controllers_.velocity_x,
                                               command.linear.x, body.velocity.x, 0, dt)},
          velocity_y \in {PIDController_update(controller.controllers_.velocity_y,
                                               command.linear.y, body.velocity.y, 0, dt)},
          yaw \in {PIDController_update(controller.controllers_.yaw,
                                        command.angular.z, 0, 0, dt)},
          velocity_z \in {PIDController_update(controller.controllers_.velocity_z,
                                               command.linear.z, body.velocity.z, 0, dt)} :
         \E roll \in {PIDController_update(controller.controllers_.roll,
                                           Neg(Div(velocity_y.output, Gravity)), 0, 0, dt)},
            pitch \in {PIDController_update(controller.controllers_.pitch,
                                            Div(velocity_x.output, Gravity), 0, 0, dt)},
            thrust \in {Times(controller.mass, Plus(velocity_z.output, body.load))} :
           LET limited == IF controller.max_force_ > 0 /\ Gt(thrust, controller.max_force_)
                          THEN controller.max_force_
                          ELSE thrust
               force_z == IF Lt(limited, 0) THEN 0 ELSE limited
           IN  /\ \A pid \in {roll, pitch, yaw, velocity_x, velocity_y, velocity_z} :
                    isnan(pid.i) \/ Abs(pid.i) <= MaxIntegral
               /\ controller' =
                    [controller EXCEPT
                       !.velocity_command_ = command,
                       !.controllers_ =
                         [roll |-> roll, pitch |-> pitch, yaw |-> yaw,
                          velocity_x |-> velocity_x, velocity_y |-> velocity_y,
                          velocity_z |-> velocity_z],
                       !.force = [x |-> 0, y |-> 0, z |-> force_z],
                       !.torque = [x |-> Times(controller.inertia, roll.output),
                                   y |-> Times(controller.inertia, pitch.output),
                                   z |-> Times(controller.inertia, yaw.output)]]
  /\ last' = Op("UpdateChild")
  /\ UNCHANGED <<estimatorVars, trackerVars>>

\* ResetChild, lines 293-304.
ResetChild ==
  /\ controller.loaded
  /\ controller' =
       [controller EXCEPT
          !.controllers_ = [c \in Controllers |-> PIDController_reset(controller.controllers_[c])],
          !.force = ZeroVector3,
          !.torque = ZeroVector3]
  /\ last' = Op("ResetChild")
  /\ UNCHANGED <<estimatorVars, trackerVars>>

(***************************************************************************)
(* Specifications.                                                         *)
(***************************************************************************)
Next ==
  \/ predict({Hover, Climb})
  \/ correctGPS(GPSUpdates)
  \/ correctHeight(HeightUpdates)
  \/ reset
  \/ callGPSonReset
  \/ callGPSgetVector
  \/ callGPSbeforeUpdate
  \/ callHeightOnReset
  \/ callHeightBeforeUpdate(HeightUpdates)
  \/ updateSystemStatus
  \/ updateMeasurementStatus
  \/ setSystemStatus
  \/ setMeasurementStatus

Spec == Init /\ [][Next]_vars

NextGPS ==
  \/ predict({Hover})
  \/ correctGPS(GPSUpdates)
  \/ reset
  \/ callGPSonReset
  \/ callGPSgetVector
  \/ callGPSbeforeUpdate

SpecGPS == Init /\ [][NextGPS]_vars

NextHeight ==
  \/ predict({Hover, Climb})
  \/ correctHeight(HeightUpdates)
  \/ reset
  \/ callHeightOnReset
  \/ callHeightBeforeUpdate(HeightUpdates)

SpecHeight == Init /\ [][NextHeight]_vars

\* The predict / correct cycle of a vehicle that hovers.
NextHover ==
  \/ predict({Hover})
  \/ correctGPS(GPSUpdates)
  \/ correctHeight(HeightUpdates)
  \/ reset

SpecHover == Init /\ [][NextHover]_vars

\* The predict / correct cycle with a measurement whose hook may refuse.
NextCorrect ==
  \/ predict({Hover})
  \/ correctGPS(GPSUpdates)
  \/ correctMagnetic(MagneticUpdates)
  \/ reset

SpecCorrect == Init /\ [][NextCorrect]_vars

\* The predict / correct cycle of a vehicle that hovers or climbs, with
\* measurements that come and time out.
NextPredict ==
  \/ predict({Hover, Climb})
  \/ correctGPS(GPSUpdates)
  \/ correctHeight(HeightUpdates)
  \/ reset

SpecPredict == Init /\ [][NextPredict]_vars

\* The predict / correct cycle with the member functions of the GPS and the
\* Height measurement called on their own.
NextReference ==
  \/ predict({Hover})
  \/ correctGPS({FixAtOrigin})
  \/ correctHeight({<<0>>})
  \/ reset
  \/ callGPSonReset
  \/ callGPSgetVector
  \/ callHeightOnReset
  \/ callHeightBeforeUpdate(HeightUpdates)

SpecReference == Init /\ [][NextReference]_vars

\* The Height measurement with its auto_elevation parameter set either way.
NextElevation ==
  \/ predict({Hover, Climb})
  \/ correctHeight(HeightUpdates)
  \/ reset
  \/ callHeightOnReset
  \/ callHeightBeforeUpdate(HeightUpdates)
  \/ setAutoElevation

SpecElevation == Init /\ [][NextElevation]_vars

\* The GPS measurement with its member functions called in any order, fed
\* with fixes that may hold a NaN.
NextOrdering ==
  \/ predict({Hover})
  \/ correctGPS(GPSUpdates \cup NaNFixes)
  \/ reset
  \/ callGPSonReset
  \/ callGPSgetVector
  \/ callGPSbeforeUpdate

SpecOrdering == Init /\ [][NextOrdering]_vars

\* The predict / correct cycle fed with samples that may hold a NaN.
NextNaN ==
  \/ predict({Hover})
  \/ correctGPS(GPSUpdates \cup NaNFixes)
  \/ correctHeight({<<0>>, <<NaN>>})
  \/ reset

SpecNaN == Init /\ [][NextNaN]_vars

\* The estimator with its status mutators and one fix.
NextStatus ==
  \/ predict({Hover})
  \/ correctGPS({FixAtOrigin})
  \/ reset
  \/ updateSystemStatus
  \/ updateMeasurementStatus
  \/ setSystemStatus
  \/ setMeasurementStatus

SpecStatus == Init /\ [][NextStatus]_vars

\* getStatusFlags applied to every measurement status.
NextStatusFlags == callGetStatusFlags

SpecStatusFlags == Init /\ [][NextStatusFlags]_vars

\* getDerivative applied again and again to the vector the caller keeps.
NextDerivative == callGetDerivative

SpecDerivative == Init /\ [][NextDerivative]_vars

\* getStateJacobian applied again and again to the matrix the caller keeps.
NextJacobian == callGetStateJacobian

SpecJacobian == Init /\ [][NextJacobian]_vars

\* getSystemNoise applied again and again to the matrix the caller keeps.
NextNoise == callGetSystemNoise

SpecNoise == Init /\ [][NextNoise]_vars

\* One envelope after another, each constructed, used and destroyed.
NextUpdate ==
  \/ newUpdate
  \/ newUpdateVector
  \/ newUpdateDouble
  \/ deleteUpdate
  \/ setValue
  \/ setValueDouble
  \/ setCovariance
  \/ assign
  \/ assignDouble
  \/ getVector
  \/ getCovariance
  \/ hasCovariance

SpecUpdate == Init /\ [][NextUpdate]_vars

\* The calls of the system model that take no matrix or vector to fill in.
NextInterface ==
  \/ callGetStatusFlags
  \/ callGetInputJacobian

SpecInterface == Init /\ [][NextInterface]_vars

\* The tracker with the default parameters, with and without verification
\* services for objects.
DefaultParameters ==
  {[NoTracker EXCEPT !.constructed = TRUE, !.verification = v] : v \in BOOLEAN}

\* The callbacks of the tracker on two threads, for one object id.
LockingPercepts == [object_id : {"", "victim_0"}, support : {0, 1}, stamp : {0}, state : {UNKNOWN}]

LockingStateRequests == [object_id : {"victim_0"}, support : {0}, stamp : {0}, state : {CONFIRMED}]

LockingAddRequests == [object_id : {"victim_0"}, support : {MaxSupport}, stamp : {0}, state : {UNKNOWN}]

NextLocking ==
  \/ ObjectTracker(DefaultParameters)
  \/ posePerceptCb(Threads, LockingPercepts)
  \/ objectAgeingCb(Threads, {MaxAgeing})
  \/ setObjectStateCb(Threads, LockingStateRequests)
  \/ setObjectNameCb(Threads)
  \/ addObjectCb(Threads, LockingAddRequests)
  \/ getObjectModelCb(Threads)

SpecLocking == Init /\ [][NextLocking]_vars

\* The thread of ros::spin() in main.
SpinThread == {"spinner1"}

\* Percepts, and the services that set the state of an object, on the one
\* thread of main.
PromotionPercepts ==
  [object_id : {"victim_0"}, support : 0..2, stamp : 0..MaxStamp, state : {UNKNOWN}]

PromotionAddRequests ==
  [object_id : {"victim_0"}, support : {1}, stamp : {0}, state : {UNKNOWN, PENDING, CONFIRMED}]

NextPromotion ==
  \/ ObjectTracker(TrackerParameters)
  \/ posePerceptCb(SpinThread, PromotionPercepts)
  \/ addObjectCb(SpinThread, PromotionAddRequests)

SpecPromotion == Init /\ [][NextPromotion]_vars

\* The tracker with an ageing threshold of 1, the default, or 2.
AgeingParameters ==
  {[NoTracker EXCEPT !.constructed = TRUE, !.ageing_threshold = threshold] :
     threshold \in {1, 2}}

AgeingAddRequests ==
  [object_id : ObjectIds, support : 1..MaxSupport, stamp : {0}, state : {UNKNOWN, CONFIRMED}]

\* Objects added by the service and aged, on the one thread of main.
NextAgeing ==
  \/ ObjectTracker(AgeingParameters)
  \/ addObjectCb(SpinThread, AgeingAddRequests)
  \/ objectAgeingCb(SpinThread, Ageings)

SpecAgeing == Init /\ [][NextAgeing]_vars

NextController ==
  \/ LoadChild
  \/ UpdateChild
  \/ ResetChild

SpecController == Init /\ [][NextController]_vars

(***************************************************************************)
(* Properties of the GPS measurement.                                      *)
(***************************************************************************)
\* A step in which GPS::beforeUpdate ran: called on its own, or as the hook of
\* a correction.
GPSHookStep == last'.op \in {"GPS::beforeUpdate", "correctGPS"}

\* The GPS measurement holds no reference when the hook looks for one: it has
\* none, or it has timed out and drops the one it has.
NoReferenceHeld == gps.reference_ = NULL \/ timedout(gps)

\* The fix the step was called with.
Fix == last'.update[1]

PositionOf(st) == <<st.POSITION_X, st.POSITION_Y>>

\* C1: GPS::beforeUpdate calls setPosition on the global reference if and only
\* if the GPS measurement holds no reference at that moment (first fix, first
\* fix after onReset, first fix after a timeout); on every other fix it leaves
\* the global reference as it is.
C1_ReanchorsIffNoReference ==
  [][GPSHookStep =>
       /\ last'.setPosition <=> NoReferenceHeld
       /\ ~NoReferenceHeld => global_reference_' = global_reference_
       /\ gps'.reference_ = globalReference]_vars

\* A fix re-anchors after a timeout, the measurement having mapped a fix before.
C1_Witness ==
  /\ last.op = "GPS::beforeUpdate"
  /\ last.setPosition
  /\ timedout(gps)
  /\ gps.last_ # <<>>

\* The latitude and longitude the position of the state maps to.
GeodeticOf(ref, st) == toWGS84(ref, st.POSITION_X, st.POSITION_Y)

C3_AnchorProjectsStateBack ==
  [][(GPSHookStep /\ last'.setPosition) =>
       LET atFix == [global_reference_ EXCEPT !.latitude = Fix.latitude,
                                              !.longitude = Fix.longitude]
           back == toWGS84(atFix, 0 - state.POSITION_X, 0 - state.POSITION_Y)
       IN  /\ global_reference_'.latitude = back[1]
           /\ global_reference_'.longitude = back[2]
           /\ PositionOf(state') = PositionOf(state)
           /\ fromWGS84(global_reference_', Fix.latitude, Fix.longitude)
                = PositionOf(state')]_vars

\* A correction whose hook re-anchored while the state was off the origin.
C3_Witness ==
  /\ last.op = "correctGPS"
  /\ last.setPosition
  /\ state.POSITION_X # 0
  /\ state.POSITION_Y # 0

\* C4 as claimed: with no reference held, beforeUpdate returns false and the
\* correction is skipped.
C4_Original ==
  [][(GPSHookStep /\ NoReferenceHeld) =>
       /\ ~last'.ret
       /\ state' = state
       /\ covariance' = covariance]_vars

\* C4: with no reference held, GPS::beforeUpdate adopts the global reference of
\* the estimator, anchors it from the fix and returns true; the correction is
\* made and not skipped.
C4_FirstFixAnchors ==
  [][(GPSHookStep /\ NoReferenceHeld) =>
       /\ last'.ret
       /\ last'.setPosition
       /\ gps'.reference_ = globalReference
       /\ ~isnan(global_reference_'.latitude)
       /\ ~isnan(global_reference_'.longitude)
       /\ last'.op = "correctGPS" => gps'.timer_ = 0 /\ ~HasNaN(gps'.y_)]_vars

\* A correction that anchored the reference and moved the state.
C4_Witness ==
  /\ last.op = "correctGPS"
  /\ last.setPosition
  /\ last.ret
  /\ covariance[STATE_VELOCITY_XY] > 0
  /\ state.VELOCITY_X # 0

\* C5: GPS::getVector returns four NaN when the GPS measurement holds no
\* reference; when it holds one it returns the fix converted through the
\* reference, fromWGS84 for the position and fromNorthEast for the velocity,
\* and no NaN.
C5_NaNUntilReference ==
  [][last'.op = "GPS::getVector" =>
       IF gps.reference_ = NULL
       THEN gps'.y_ = <<NaN, NaN, NaN, NaN>>
       ELSE /\ ~HasNaN(gps'.y_)
            /\ <<gps'.y_[1], gps'.y_[2]>>
                 = fromWGS84(global_reference_, Fix.latitude, Fix.longitude)
            /\ <<gps'.y_[3], gps'.y_[4]>>
                 = fromNorthEast(global_reference_, Fix.velocity_north,
                                 Fix.velocity_east)]_vars

\* getVector returns the placeholder after onReset, a fix having been mapped before.
C5_Witness ==
  /\ last.op = "GPS::getVector"
  /\ gps.y_ = <<NaN, NaN, NaN, NaN>>
  /\ gps.last_ # <<>>
  /\ ~isnan(global_reference_.latitude)

(***************************************************************************)
(* Properties of the correction fed with NaN.                              *)
(***************************************************************************)
\* A correction whose measurement vector holds a NaN: the vector getVector
\* made for the GPS, the sample itself for the Height.
NaNVectorStep ==
  \/ last'.op = "correctGPS" /\ HasNaN(gps'.y_)
  \/ last'.op = "correctHeight" /\ HasNaN(last'.update)

\* C6: a measurement vector that holds a NaN changes neither the state mean nor
\* the covariance in any sequence of predict and correct calls, and the state
\* never holds a NaN.
C6_NaNNotPropagated ==
  /\ [](~StateHasNaN(state))
  /\ [][NaNVectorStep =>
          /\ state' = state
          /\ covariance' = covariance
          /\ ~last'.ret]_vars

\* A GPS vector with a NaN was rejected while the position block had a
\* variance, so that the gain was not zero.
C6_Witness ==
  /\ last.op = "correctGPS"
  /\ HasNaN(gps.y_)
  /\ ~last.ret
  /\ covariance[STATE_POSITION_XY] > 0

(***************************************************************************)
(* Properties of the Height measurement.                                   *)
(***************************************************************************)
\* A step in which Height::beforeUpdate ran: called on its own, or as the hook
\* of a correction.
HeightHookStep == last'.op \in {"Height::beforeUpdate", "correctHeight"}

\* The raw sample the step was called with.
Sample == last'.update[1]

\* C7: the first Height::beforeUpdate after construction or after onReset sets
\* the reference altitude to the raw sample minus POSITION_Z of the state;
\* every later one leaves the reference altitude as it is and uses it as the
\* elevation of the model; onReset opens the latch again.
C7_ElevationLatchedOnce ==
  /\ ~height.elevation_initialized_
  /\ [][/\ HeightHookStep =>
             /\ IF height.elevation_initialized_
                THEN ~last'.setAltitude /\ global_reference_' = global_reference_
                ELSE /\ last'.setAltitude
                     /\ global_reference_'.altitude = Minus(Sample, state.POSITION_Z)
             /\ height'.elevation_ = global_reference_'.altitude
             /\ height'.elevation_initialized_
        /\ last'.op \in {"Height::onReset", "reset"} =>
             /\ ~height'.elevation_initialized_
             /\ global_reference_' = global_reference_
        /\ last'.op = "predict" =>
             /\ height'.elevation_initialized_ = height.elevation_initialized_
             /\ global_reference_' = global_reference_]_vars

\* A later sample that the latched elevation does not explain left the
\* reference altitude as it was.
C7_Witness ==
  /\ last.op = "Height::beforeUpdate"
  /\ ~last.setAltitude
  /\ height.elevation_initialized_
  /\ last.update[1] # Plus(state.POSITION_Z, global_reference_.altitude)
  /\ height.elevation_ = global_reference_.altitude

\* The heights the state can have.
Heights == (0 - MaxPos)..MaxPos

\* C8: after the first Height::beforeUpdate with raw sample h at state height
\* z, ExpectedValueGet returns z' + (h - z) at any state height z', and h at
\* z; a step that does not solve the elevation leaves it as it is.
C8_PredictionOffsetByElevation ==
  [][IF HeightHookStep /\ ~height.elevation_initialized_
     THEN /\ \A z \in Heights :
               HeightModel_ExpectedValueGet([state EXCEPT !.POSITION_Z = z], height')
                 = <<Plus(z, Minus(Sample, state.POSITION_Z))>>
          /\ HeightModel_ExpectedValueGet(state, height') = <<Sample>>
     ELSE /\ height'.elevation_ = height.elevation_
          /\ \A z \in Heights :
               HeightModel_ExpectedValueGet([state' EXCEPT !.POSITION_Z = z], height')
                 = HeightModel_ExpectedValueGet([state EXCEPT !.POSITION_Z = z], height)]_vars

\* The first raw sample MaxAlt at height 0: the elevation is MaxAlt, and so is
\* the prediction at height 0.
C8_Witness ==
  /\ last.op = "Height::beforeUpdate"
  /\ last.setAltitude
  /\ last.update = <<MaxAlt>>
  /\ state.POSITION_Z = 0
  /\ height.elevation_ = MaxAlt
  /\ HeightModel_ExpectedValueGet(state, height) = <<MaxAlt>>

(***************************************************************************)
(* Properties of the status of the estimator.                              *)
(***************************************************************************)
\* The status after the masks of the step: a flag is in it if and only if it
\* is not in the clear mask and was in the status or is in the set mask.
MasksApplied(old, new) ==
  LET set == last'.update[1]
      clear == last'.update[2]
  IN  \A f \in StatusFlags : f \in new <=> (f \notin clear /\ (f \in old \/ f \in set))

\* C9: updateSystemStatus and updateMeasurementStatus apply the set mask and
\* then the clear mask in one step: the new status is the old status with the
\* set mask added and the clear mask removed, so that a flag in both masks
\* ends up cleared.
C9_SetThenClear ==
  [][/\ last'.op = "updateSystemStatus" => MasksApplied(status_, status_')
     /\ last'.op = "updateMeasurementStatus" =>
          MasksApplied(measurement_status_, measurement_status_')]_vars

\* A flag that was in both masks of updateSystemStatus is not in the status.
C9_Witness ==
  /\ last.op = "updateSystemStatus"
  /\ STATE_POSITION_XY \in last.update[1] \cap last.update[2]
  /\ STATE_POSITION_XY \notin status_
  /\ STATE_VELOCITY_Z \in status_

SystemStatusOps == {"updateSystemStatus", "setSystemStatus"}

MeasurementStatusOps == {"updateMeasurementStatus", "setMeasurementStatus"}

Implications ==
  {<<STATE_POSITION_XY, STATE_VELOCITY_XY>>, <<STATE_POSITION_Z, STATE_VELOCITY_Z>>,
   <<STATE_VELOCITY_XY, STATE_ROLLPITCH>>, <<STATE_ROLLPITCH, STATE_RATE_XY>>}

Closed(flags) == \A i \in Implications : i[1] \in flags => i[2] \in flags

\* The smallest closed set of flags that contains the given one.
Closure(flags) ==
  CHOOSE c \in SUBSET StatusFlags :
    /\ flags \subseteq c
    /\ Closed(c)
    /\ \A d \in SUBSET StatusFlags : (flags \subseteq d /\ Closed(d)) => c \subseteq d

\* C11: for every measurement status getStatusFlags returns a set that
\* contains it and is closed under the four implications after one pass
\* (applied to its own result it returns the same set); beyond the closure it
\* adds only RATE_XY and RATE_Z, which are always in the result of a build
\* without USE_RATE_SYSTEM_MODEL.
C11_FlagsClosedInOnePass ==
  last.op = "getStatusFlags" =>
    LET measurement_status == last.update[1]
        flags == last.ret
    IN  /\ measurement_status \subseteq flags
        /\ Closed(flags)
        /\ getStatusFlags(flags) = flags
        /\ flags \ Closure(measurement_status) \subseteq {STATE_RATE_XY, STATE_RATE_Z}
        /\ Closure(measurement_status) \subseteq flags
        /\ ~USE_RATE_SYSTEM_MODEL => {STATE_RATE_XY, STATE_RATE_Z} \subseteq flags

\* The status of the GPS model alone went through the chain of three
\* implications in the one pass.
C11_Witness ==
  /\ last.op = "getStatusFlags"
  /\ last.update[1] = {STATE_POSITION_XY}
  /\ last.ret = {STATE_POSITION_XY, STATE_VELOCITY_XY, STATE_ROLLPITCH,
                 STATE_RATE_XY, STATE_RATE_Z}

\* The rotation matrix of the orientation of a state, row by row.
RotationMatrix(st) ==
  LET w == st.QUATERNION_W
      x == st.QUATERNION_X
      y == st.QUATERNION_Y
      z == st.QUATERNION_Z
  IN  << <<w * w + x * x - y * y - z * z, 2 * (x * y - w * z), 2 * (x * z + w * y)>>,
         <<2 * (x * y + w * z), w * w - x * x + y * y - z * z, 2 * (y * z - w * x)>>,
         <<2 * (x * z - w * y), 2 * (y * z + w * x), w * w - x * x - y * y + z * z>> >>

\* A body vector in the navigation frame.
ToNav(st, a) ==
  LET R == RotationMatrix(st)
  IN  [i \in 1..3 |-> R[i][1] * a[1] + R[i][2] * a[2] + R[i][3] * a[3]]

\* x_dot keeps the components named.
Kept(components) == \A c \in components : x_dot_'[c] = x_dot_[c]

\* C12: getDerivative writes x_dot(VELOCITY_Z), the rotated body acceleration
\* plus gravity, only when STATE_VELOCITY_Z is in the system status,
\* x_dot(VELOCITY_X/Y) only when STATE_VELOCITY_XY is, x_dot(POSITION_X/Y), the
\* velocity x/y, only when STATE_POSITION_XY is, and x_dot(POSITION_Z), the
\* velocity z, only when STATE_POSITION_Z is; a component whose flag is
\* inactive is left as the caller passed it in.
C12_DerivativeGatedByStatus ==
  [][last'.op = "getDerivative" =>
       LET st == last'.update[1]
           blocks == last'.update[2]
           status == last'.update[3]
           nav == ToNav(st, last'.update[4])
       IN  /\ IF STATE_VELOCITY_XY \in status /\ VELOCITY \in blocks
              THEN x_dot_'.VELOCITY_X = nav[1] /\ x_dot_'.VELOCITY_Y = nav[2]
              ELSE Kept({"VELOCITY_X", "VELOCITY_Y"})
           /\ IF STATE_VELOCITY_Z \in status /\ VELOCITY \in blocks
              THEN x_dot_'.VELOCITY_Z = nav[3] + gravity_
              ELSE Kept({"VELOCITY_Z"})
           /\ IF STATE_POSITION_XY \in status
              THEN x_dot_'.POSITION_X = st.VELOCITY_X /\ x_dot_'.POSITION_Y = st.VELOCITY_Y
              ELSE Kept({"POSITION_X", "POSITION_Y"})
           /\ IF STATE_POSITION_Z \in status
              THEN x_dot_'.POSITION_Z = st.VELOCITY_Z
              ELSE Kept({"POSITION_Z"})
           /\ Kept({"RATE_X", "RATE_Y", "RATE_Z"})]_vars

\* A call with only STATE_VELOCITY_XY active wrote the horizontal velocity
\* and left the vertical entries an earlier call had written.
C12_Witness ==
  /\ last.op = "getDerivative"
  /\ last.update[3] = {STATE_VELOCITY_XY}
  /\ x_dot_.VELOCITY_X = 1
  /\ x_dot_.VELOCITY_Z # 0
  /\ x_dot_.POSITION_Z # 0

QuaternionComponents ==
  {"QUATERNION_W", "QUATERNION_X", "QUATERNION_Y", "QUATERNION_Z"}

\* The entries of the matrix that couple the rows given to the quaternion.
QuaternionColumnsZero(M, rows) ==
  \A r \in rows, c \in QuaternionComponents : M[<<r, c>>] = 0

\* C13: after getStateJacobian, for every system status, the entries of A of
\* an inactive flag are zero: the quaternion columns of the rows VELOCITY_X
\* and VELOCITY_Y without STATE_VELOCITY_XY, of the row VELOCITY_Z without
\* STATE_VELOCITY_Z, and the entries that couple a position to its velocity
\* without the flag of the position; also when an earlier call filled the
\* same matrix while the flags were active.  The entries exist when the state
\* holds the blocks they couple.
C13_InactiveEntriesZero ==
  last.op = "getStateJacobian" =>
    LET blocks == last.update[2]
        status == last.update[3]
    IN  /\ {VELOCITY, ORIENTATION} \subseteq blocks =>
             /\ STATE_VELOCITY_XY \notin status =>
                  QuaternionColumnsZero(A, {"VELOCITY_X", "VELOCITY_Y"})
             /\ STATE_VELOCITY_Z \notin status =>
                  QuaternionColumnsZero(A, {"VELOCITY_Z"})
        /\ {POSITION, VELOCITY} \subseteq blocks =>
             /\ STATE_POSITION_XY \notin status =>
                  /\ A[<<"POSITION_X", "VELOCITY_X">>] = 0
                  /\ A[<<"POSITION_Y", "VELOCITY_Y">>] = 0
             /\ STATE_POSITION_Z \notin status =>
                  A[<<"POSITION_Z", "VELOCITY_Z">>] = 0

\* A call with no flag active was handed a matrix that an earlier call had
\* filled while the flags were active, and zeroed those entries.
C13_Witness ==
  /\ last.op = "getStateJacobian"
  /\ last.update[2] = AllBlocks
  /\ last.update[3] = {}
  /\ ~QuaternionColumnsZero(last.ret, {"VELOCITY_X", "VELOCITY_Y"})
  /\ ~QuaternionColumnsZero(last.ret, {"VELOCITY_Z"})
  /\ last.ret[<<"POSITION_X", "VELOCITY_X">>] # 0
  /\ last.ret[<<"POSITION_Z", "VELOCITY_Z">>] # 0
  /\ QuaternionColumnsZero(A, {"VELOCITY_X", "VELOCITY_Y", "VELOCITY_Z"})
  /\ A[<<"POSITION_X", "VELOCITY_X">>] = 0


(***************************************************************************)
(* Properties of the system noise.                                         *)
(***************************************************************************)
SeededComponents ==
  {"RATE_X", "RATE_Y", "RATE_Z", "POSITION_X", "POSITION_Y", "POSITION_Z",
   "VELOCITY_X", "VELOCITY_Y", "VELOCITY_Z"}

\* The arguments of the getSystemNoise call a step makes.
NoiseCall == [st |-> last.update[1], blocks |-> last.update[2],
              parameters |-> last.update[3], init |-> last.update[4]]

\* C14: a getSystemNoise call with init = false changes no entry of Q but
\* the four quaternion diagonal entries, and those only when rate_stddev > 0
\* and the state has an orientation block; the rate, position and velocity
\* entries keep what the last seeding call gave them.
C14_RefreshTouchesQuaternionOnly ==
  [][(last'.op = "getSystemNoise" /\ ~NoiseCall'.init) =>
       /\ \A c \in StateComponents \ QuaternionComponents : Q'[c] = Q[c]
       /\ (~(NoiseCall'.parameters.rate_stddev_ > 0 /\ ORIENTATION \in NoiseCall'.blocks))
            => Q' = Q]_vars

\* A refreshing call that found seeded rate and velocity entries other than
\* what its own parameters would seed, and left the quaternion entries set.
C14_Witness ==
  /\ last.op = "getSystemNoise"
  /\ ~NoiseCall.init
  /\ Q.RATE_X # Pow2(NoiseCall.parameters.angular_acceleration_stddev_)
  /\ Q.VELOCITY_X # Pow2(NoiseCall.parameters.acceleration_stddev_)
  /\ Q.RATE_X # 0
  /\ Q.VELOCITY_X # 0
  /\ Q.QUATERNION_X # 0

\* C15 as stated: a getSystemNoise call with init = true seeds the entries
\* of every block the state holds from that block's own parameter, whatever
\* other blocks the state holds.
C15_EachBlockSeededFromOwnParameter ==
  [][(last'.op = "getSystemNoise" /\ NoiseCall'.init) =>
       /\ RATE \in NoiseCall'.blocks =>
            \A c \in {"RATE_X", "RATE_Y", "RATE_Z"} :
              Q'[c] = Pow2(NoiseCall'.parameters.angular_acceleration_stddev_)
       /\ POSITION \in NoiseCall'.blocks =>
            \A c \in {"POSITION_X", "POSITION_Y", "POSITION_Z"} :
              Q'[c] = Pow2(NoiseCall'.parameters.velocity_stddev_)
       /\ VELOCITY \in NoiseCall'.blocks =>
            \A c \in {"VELOCITY_X", "VELOCITY_Y", "VELOCITY_Z"} :
              Q'[c] = Pow2(NoiseCall'.parameters.acceleration_stddev_)]_vars


(***************************************************************************)
(* The hover case.                                                         *)
(***************************************************************************)
VelocityComponents == {"VELOCITY_X", "VELOCITY_Y", "VELOCITY_Z"}

\* Level orientation and no angular rate.
LevelNotTurning(st) ==
  /\ st.QUATERNION_W = 1
  /\ \A c \in {"QUATERNION_X", "QUATERNION_Y", "QUATERNION_Z", "RATE_X", "RATE_Y", "RATE_Z"} :
       st[c] = 0

\* C16: at level orientation, with no angular rate and the body acceleration
\* (0, 0, -g), getDerivative gives a zero quaternion derivative and a zero
\* velocity derivative whatever velocity flags are active, and every predict
\* step leaves the orientation and the velocity as they were.
C16_HoverKeepsOrientationAndVelocity ==
  [][(last'.op = "predict" /\ last'.update = <<Hover>> /\ LevelNotTurning(state)) =>
       /\ \A c \in QuaternionComponents \cup VelocityComponents :
            getDerivative(ZeroVector, state, AllBlocks, status_', Hover, gravity_)[c] = 0
       /\ \A c \in QuaternionComponents \cup VelocityComponents : state'[c] = state[c]]_vars

\* A hover predict step made with both velocity flags active on a vehicle
\* that moves.
C16_Witness ==
  /\ last.op = "predict"
  /\ last.update = <<Hover>>
  /\ LevelNotTurning(state)
  /\ {STATE_VELOCITY_XY, STATE_VELOCITY_Z} \subseteq status_
  /\ state.VELOCITY_X # 0


(***************************************************************************)
(* Properties of correct.                                                  *)
(***************************************************************************)
\* C17: correct calls the hook of the model first; when the hook returns
\* false the correction is not made, the state mean and the covariance are
\* what they were before the call, and what the hook did to the global
\* reference stays.
C17_RefusedCorrectionKeepsState ==
  [][(last'.op = "correctMagnetic" /\ ~last'.ret) =>
       /\ state' = state
       /\ covariance' = covariance
       /\ global_reference_' = [global_reference_ EXCEPT !.heading = last'.update[3]]]_vars

\* A correction the hook refused after it gave the reference another
\* heading, for a field that would have turned the vehicle.
C17_Witness ==
  /\ last.op = "correctMagnetic"
  /\ ~last.ret
  /\ last.update[1] # MagneticModel_ExpectedValueGet(state)
  /\ global_reference_.heading # last.update[2]
  /\ state.QUATERNION_Z # 0


(***************************************************************************)
(* Inactive blocks over predict steps.                                     *)
(***************************************************************************)
PositionComponents == {"POSITION_X", "POSITION_Y", "POSITION_Z"}

OnEnvelope == update_ # NoUpdate /\ last'.op # "~Update_"

\* C19 as stated: once an envelope is constructed, no operation on it
\* changes its measurement vector, its covariance or its has-covariance flag.
C19_Original == [][OnEnvelope => update_' = update_]_vars

\* C19: getVector, getCovariance and hasCovariance change nothing of a
\* constructed envelope; setValue and operator= replace the measurement
\* vector (with a number, its first element) and leave the covariance and
\* the flag; setCovariance stores the covariance, sets the flag and leaves
\* the vector.  No operation clears the flag.
C19_EnvelopeChangedBySettersOnly ==
  [][OnEnvelope =>
       /\ last'.op \in {"getVector", "getCovariance", "hasCovariance"} => update_' = update_
       /\ last'.op \in {"setValue", "operator="} =>
            update_' = [update_ EXCEPT !.y_ = last'.update[1]]
       /\ last'.op \in {"setValue(double)", "operator=(double)"} =>
            update_' = [update_ EXCEPT !.y_[1] = last'.update[1]]
       /\ last'.op = "setCovariance" =>
            update_' = [update_ EXCEPT !.R_ = last'.update[1], !.has_covariance_ = TRUE]
       /\ update_.has_covariance_ => update_'.has_covariance_]_vars

\* An envelope with a covariance whose measurement vector setValue replaced.
C19_Witness ==
  /\ last.op = "setValue"
  /\ last.ret # NoUpdate
  /\ last.ret.y_ # update_.y_
  /\ update_.has_covariance_
  /\ update_.R_ # 0


(***************************************************************************)
(* Who moves the global reference.                                         *)
(***************************************************************************)
\* The operations that run a beforeUpdate hook: the hooks themselves and
\* correct, which calls the hook of its measurement.
GPSHookRuns == {"GPS::beforeUpdate", "correctGPS"}

HeightHookRuns == {"Height::beforeUpdate", "correctHeight"}

\* C20: the position and the altitude of the global reference change only
\* while a beforeUpdate hook runs, and every setPosition and setAltitude call
\* is made by one; GPS::getVector, GPS::onReset, Height::onReset and the
\* predict and reset steps leave the reference as it is.
C20_ReferenceMovedByHooksOnly ==
  [][/\ (\/ global_reference_'.latitude # global_reference_.latitude
         \/ global_reference_'.longitude # global_reference_.longitude
         \/ last'.setPosition) => last'.op \in GPSHookRuns
     /\ (\/ global_reference_'.altitude # global_reference_.altitude
         \/ last'.setAltitude) => last'.op \in HeightHookRuns]_vars

\* GPS::onReset called on a measurement that holds the reference, after the
\* hooks gave the reference a position and an altitude.
C20_Witness ==
  /\ last.op = "GPS::onReset"
  /\ ~isnan(global_reference_.latitude)
  /\ ~isnan(global_reference_.altitude)
  /\ gps.timer_ = 0
  /\ height.elevation_initialized_


(***************************************************************************)
(* How the operations of the system model end.                             *)
(***************************************************************************)
SystemModelOps ==
  {"prepareUpdate", "getDerivative", "getSystemNoise", "getStateJacobian",
   "getInputJacobian", "getStatusFlags"}

\* C21 as stated: every operation of the process model interface returns to
\* its caller; none ends with an exception.
C21_EveryOperationReturns == last.op \in SystemModelOps => ~last.thrown


(***************************************************************************)
(* The auto_elevation parameter.                                           *)
(***************************************************************************)
\* C24 as stated: while auto_elevation is false, Height::beforeUpdate, called
\* on its own or by correct, leaves the altitude of the global reference as
\* it is.
C24_AutoElevationHonoured ==
  [][(last'.op \in HeightHookRuns /\ ~height.auto_elevation_) =>
       /\ global_reference_'.altitude = global_reference_.altitude
       /\ ~last'.setAltitude]_vars


(***************************************************************************)
(* The order of the GPS hook and getVector.                                *)
(***************************************************************************)
\* The vector getVector computes for a fix through a reference.
Converted(ref, update) ==
  LET p == fromWGS84(ref, update.latitude, update.longitude)
      v == fromNorthEast(ref, update.velocity_north, update.velocity_east)
  IN  <<p[1], p[2], v[1], v[2]>>

NoNaNIn(update) ==
  ~isnan(update.latitude) /\ ~isnan(update.longitude)
  /\ ~isnan(update.velocity_north) /\ ~isnan(update.velocity_east)

Placeholder == <<NaN, NaN, NaN, NaN>>

\* C25 as stated: the getVector call that follows beforeUpdate for the same
\* update, as in correct, returns no NaN component.
C25_Original == [][last'.op = "correctGPS" => ~HasNaN(gps'.y_)]_vars

\* C25: when GPS::beforeUpdate has returned the measurement holds the global
\* reference.  A getVector call on a measurement that holds it converts the
\* fix through the reference and records the fix as the last one; the
\* vector has a NaN component only if the fix or the position of the
\* reference has one.  A getVector call on a measurement that holds no
\* reference returns the placeholder and does not record the fix.
C25_HookBeforeVector ==
  [][/\ last'.op \in GPSHookRuns => gps'.reference_ = globalReference
     /\ last'.op = "correctGPS" =>
          /\ gps'.last_ = last'.update
          /\ gps'.y_ = Converted(global_reference_', last'.update[1])
     /\ (last'.op = "GPS::getVector" /\ gps.reference_ # NULL) =>
          /\ gps'.last_ = last'.update
          /\ gps'.y_ = Converted(global_reference_, last'.update[1])
     /\ (last'.op \in {"GPS::getVector", "correctGPS"} /\ gps'.reference_ # NULL
         /\ NoNaNIn(last'.update[1]) /\ ~isnan(global_reference_'.latitude)
         /\ ~isnan(global_reference_'.longitude)) => ~HasNaN(gps'.y_)
     /\ (last'.op = "GPS::getVector" /\ gps.reference_ = NULL) =>
          /\ gps'.last_ = gps.last_
          /\ gps'.y_ = Placeholder]_vars

\* A correct whose hook found the reference held, anchored by an earlier fix
\* that held a NaN: the vector of a sound fix has NaN components.
C25_Witness ==
  /\ last.op = "correctGPS"
  /\ NoNaNIn(last.update[1])
  /\ gps.reference_ = globalReference
  /\ gps.last_ = last.update
  /\ HasNaN(gps.y_)
  /\ gps.y_ # Placeholder

(***************************************************************************)
(* Properties of the object tracker.                                       *)
(***************************************************************************)
TrackerCallbacks ==
  {"posePerceptCb", "objectAgeingCb", "setObjectStateCb", "setObjectNameCb",
   "addObjectCb", "getObjectModelCb"}

\* The positions of a callback between its lock and its unlock.
CriticalSection == {"find", "update", "unlock", "loop", "set", "add"}

\* C26: no callback returns holding the mutex of the model: a thread that is
\* in no callback does not hold it, the step that returns from a callback
\* leaves it with another thread or with none, and the thread that holds it
\* is between the lock and the unlock of a callback, so that it is released
\* for the next callback.
C26_LockReleasedOnEveryReturn ==
  /\ \A t \in Threads :
       /\ callbacks[t].cb = "" => model_mutex # t
       /\ model_mutex = t => callbacks[t].pc \in CriticalSection
  /\ (last.op \in TrackerCallbacks /\ last.update.returns) =>
       model_mutex # last.update.thread

\* A percept that found an object in a fixed state has returned, and the
\* mutex is free.
C26_Witness ==
  /\ last.op = "posePerceptCb"
  /\ last.update.step = "find"
  /\ last.update.returns
  /\ last.update.locked
  /\ model_mutex = NULL

\* C27: every step of a callback that reads or writes the model or an object
\* of it is made by a thread that holds the mutex of the model.
C27_AccessUnderLock ==
  (last.op \in TrackerCallbacks /\ last.update.access) => last.update.locked

\* The step of posePerceptCb that creates or updates an object has run.
PerceptUpdated == last.op = "posePerceptCb" /\ last.update.step = "update"

\* The time from the previous header stamp of the object to the percept.
Elapsed == last.ret.stamp - last.ret.before.stamp

PendingCondition ==
  /\ parameters_.pending_support > 0
  /\ last.ret.after.support >= parameters_.pending_support
  /\ Elapsed >= parameters_.pending_time

ActiveCondition ==
  /\ parameters_.active_support > 0
  /\ last.ret.after.support >= parameters_.active_support
  /\ Elapsed >= parameters_.active_time

\* The percept left the state of the object as it was.
NotPromoted == last.ret.after.state = last.ret.before.state

\* The promotions of a percept: an UNKNOWN object leaves its state under the
\* PENDING condition only, an object becomes ACTIVE under the ACTIVE
\* condition only, from PENDING or from UNKNOWN under the PENDING condition
\* too, and there is no other change of state.
PromotionOrdered ==
  PerceptUpdated =>
    /\ (last.ret.before.state = UNKNOWN /\ ~NotPromoted) => PendingCondition
    /\ (last.ret.after.state = ACTIVE /\ ~NotPromoted) =>
         /\ ActiveCondition
         /\ last.ret.before.state \in {UNKNOWN, PENDING}
    /\ (last.ret.after.state = PENDING /\ ~NotPromoted) => last.ret.before.state = UNKNOWN
    /\ ~NotPromoted => last.ret.after.state \in {PENDING, ACTIVE}

\* A step of posePerceptCb leaves every object in a fixed state as it is.
FixedObjectsKept ==
  last'.op = "posePerceptCb" =>
    \A id \in DOMAIN objects :
      objects[id].state < 0 => id \in DOMAIN objects' /\ objects'[id] = objects[id]

\* The statement with its last part as it stands: promotions are ordered,
\* fixed objects are kept, and with pending_support = 0 no percept promotes
\* an object.
C28_Original ==
  [][/\ PromotionOrdered'
     /\ FixedObjectsKept
     /\ (PerceptUpdated' /\ parameters_.pending_support = 0) => NotPromoted']_vars

\* C28: the promotions of a percept are ordered UNKNOWN, PENDING, ACTIVE
\* under the support and time conditions of each, an object in a fixed
\* state is not modified by a percept, with pending_support = 0 no percept
\* promotes an UNKNOWN object, and with pending_support = 0 and
\* active_support = 0 no percept promotes any object.
C28_PromotionOrdered ==
  [][/\ PromotionOrdered'
     /\ FixedObjectsKept
     /\ (PerceptUpdated' /\ parameters_.pending_support = 0) =>
          (last'.ret.before.state = UNKNOWN => NotPromoted')
     /\ (PerceptUpdated' /\ parameters_.pending_support = 0
           /\ parameters_.active_support = 0) => NotPromoted']_vars

\* One percept has taken an UNKNOWN object to ACTIVE, through both
\* conditions.
C28_Witness ==
  /\ PerceptUpdated
  /\ last.ret.before.state = UNKNOWN
  /\ last.ret.after.state = ACTIVE
  /\ PendingCondition
  /\ ActiveCondition

\* The pass of objectAgeingCb over the objects has run; last.ret holds the
\* model as it was before the pass.
Aged == last.op = "objectAgeingCb" /\ last.update.step = "loop"

\* The amount of the pass.
AgeingAmount == callbacks[last.update.thread].request.support

\* C29: after the pass of objectAgeingCb with the amount a, every object
\* that was in the model and whose support less a is below the threshold is
\* gone, every other one is in the model with its support reduced by a and
\* nothing else changed, no object has been added, and every object in the
\* model has a support of at least the threshold.
C29_AgedOnceEach ==
  Aged =>
    /\ DOMAIN objects \subseteq DOMAIN last.ret
    /\ \A id \in DOMAIN last.ret :
         IF last.ret[id].support - AgeingAmount < parameters_.ageing_threshold
         THEN id \notin DOMAIN objects
         ELSE /\ id \in DOMAIN objects
              /\ objects[id] =
                   [last.ret[id] EXCEPT !.support = last.ret[id].support - AgeingAmount]
    /\ \A id \in DOMAIN objects : objects[id].support >= parameters_.ageing_threshold

\* One pass has removed two objects.
C29_Witness ==
  /\ Aged
  /\ DOMAIN last.ret = ObjectIds
  /\ DOMAIN objects = {}
  /\ AgeingAmount > 0

(***************************************************************************)
(* Properties of the quadrotor controller.                                 *)
(***************************************************************************)
\* The force on the body is a thrust along z between 0 and maxForce.
ForceBounded ==
  /\ controller.force.x = 0
  /\ controller.force.y = 0
  /\ ~isnan(controller.force.z)
  /\ controller.force.z >= 0
  /\ controller.max_force_ > 0 => controller.force.z <= controller.max_force_

\* The six PID controllers, the force and the torque are zero.
ControllerAtRest ==
  /\ \A c \in Controllers :
       controller.controllers_[c] = PIDController_reset(controller.controllers_[c])
  /\ controller.force = ZeroVector3
  /\ controller.torque = ZeroVector3

\* C30: after UpdateChild the force on the body is bounded, for every
\* command and body state, and after ResetChild the controller is at rest.
C30_ForceBoundedAndReset ==
  /\ last.op = "UpdateChild" => ForceBounded
  /\ last.op = "ResetChild" => ControllerAtRest

\* The same for the commands that hold no NaN.
C30_ForceBoundedForNumbers ==
  /\ (last.op = "UpdateChild" /\ ~isnan(controller.velocity_command_.linear.z)
        /\ ~isnan(controller.controllers_.velocity_z.i)) => ForceBounded
  /\ last.op = "ResetChild" => ControllerAtRest

====
